---- MODULE Spec2Model ----
(***************************************************************************)
(* Model of serde_codegen/src/de.rs: the deserialization code that         *)
(* #[derive(Deserialize)] generates, run against a decoder's cursors.      *)
(*                                                                         *)
(* Text is a sequence of code points, a byte string a sequence of 0..255.  *)
(* The generated __Field identifier type, its three visit_* matchers, the  *)
(* visit_seq and visit_map bodies and the enum dispatch are translated     *)
(* from the quoted code the generator emits.                               *)
(***************************************************************************)
EXTENDS Integers, Sequences, FiniteSets, TLC

\* Largest number of declared fields (or variants) of a generated type.
MaxFields == 2

\* Largest number of entries a cursor hands out before it reports exhaustion.
MaxLen == 3

VARIABLES
    field_names,          \* wire names handed to deserialize_field_visitor
    deny_unknown_fields,  \* container_attrs.deny_unknown_fields()
    is_variant,           \* deserialize_field_visitor's is_variant argument
    value,                \* the identifier the format hands to __FieldVisitor
    ident,                \* what __FieldVisitor returned
    pc,                   \* where the generated code stands
    variant_data,         \* shape and fields of the struct (or variant) decoded
    form,                 \* the wire representation the format meets
    input,                \* items of the sequence cursor
    pos,                  \* elements (or keys) the cursor has handed out
    locals,               \* __field0.. bound so far by visit_seq / extraction
    slots,                \* visit_map's `let mut __fieldN = None`
    outcome,              \* what the decode call returned
    calls,                \* how often each cursor operation was called
    announce,             \* the Deserializer method the type announced itself by
    enum_def,             \* the variants of the enum decoded (none for a struct)
    arm_taken,            \* the arm the enum's dispatch match took
    continuation,         \* the VariantVisitor method the arm called
    variant_ident,        \* the variant whose constructor the arm's result uses
    wire,                 \* what the map cursor produced so far (bookkeeping)
    shadow,               \* the same visit_map fed only the recognized entries
    standalone,           \* a standalone struct's visitor fed the same input
    batch,                \* the annotatables the derive was expanded on, in order
    pushed,               \* the impl items handed to push
    span_err              \* the diagnostics reported through cx.span_err

identVars == <<field_names, deny_unknown_fields, is_variant, value, ident>>
runVars == <<variant_data, form, input, pos, locals, slots, outcome, calls,
             announce, enum_def, arm_taken, continuation, variant_ident, wire,
             shadow, standalone, batch, pushed, span_err>>
vars == <<identVars, pc, runVars>>

----------------------------------------------------------------------------
\* Names, text and bytes

\* The i-th name of the pool the schemas draw from: "a", U+00E9, "c", "d", ...
NamePool(i) == IF i = 1 THEN <<233>> ELSE <<97 + i>>

\* UTF-8 encoding of one code point (up to three bytes).
Utf8(cp) ==
    IF cp < 128 THEN <<cp>>
    ELSE IF cp < 2048 THEN <<192 + (cp \div 64), 128 + (cp % 64)>>
    ELSE <<224 + (cp \div 4096), 128 + ((cp \div 64) % 64), 128 + (cp % 64)>>

RECURSIVE byte_str(_)
\* builder.expr().lit().byte_str(name): the bytes of a name
byte_str(name) ==
    IF name = <<>> THEN <<>> ELSE Utf8(Head(name)) \o byte_str(Tail(name))

IsCont(b) == b >= 128 /\ b <= 191

RECURSIVE from_utf8_lossy(_)
\* String::from_utf8_lossy: every byte that starts no well-formed sequence
\* becomes U+FFFD (one- to three-byte sequences are decoded).
from_utf8_lossy(bytes) ==
    IF bytes = <<>> THEN <<>>
    ELSE LET b == bytes[1]
             n == Len(bytes)
         IN IF b < 128 THEN <<b>> \o from_utf8_lossy(Tail(bytes))
            ELSE IF b >= 194 /\ b <= 223 /\ n >= 2 /\ IsCont(bytes[2])
            THEN <<(b - 192) * 64 + (bytes[2] - 128)>>
                 \o from_utf8_lossy(SubSeq(bytes, 3, n))
            ELSE IF b >= 225 /\ b <= 239 /\ b # 237 /\ n >= 3
                    /\ IsCont(bytes[2]) /\ IsCont(bytes[3])
            THEN <<(b - 224) * 4096 + (bytes[2] - 128) * 64 + (bytes[3] - 128)>>
                 \o from_utf8_lossy(SubSeq(bytes, 4, n))
            ELSE <<65533>> \o from_utf8_lossy(Tail(bytes))

\* An identifier as the format presents it: an index, a text key or a byte key.
UsizeKey(n) == [kind |-> "usize", n |-> n, s |-> <<>>]
StrKey(s) == [kind |-> "str", n |-> 0, s |-> s]
BytesKey(s) == [kind |-> "bytes", n |-> 0, s |-> s]

----------------------------------------------------------------------------
\* deserialize_field_visitor: the generated __Field type and its matchers

Ok(tag) == [kind |-> "Ok", tag |-> tag, msg |-> "", text |-> <<>>]
Err(kind, msg, text) == [kind |-> kind, tag |-> "", msg |-> msg, text |-> text]

\* "__field0", "__field1", ...: one tag per name, in declaration order
field_idents(names) == [i \in 1..Len(names) |-> "__field" \o ToString(i - 1)]

\* the __ignore tag generated whatever the container's policy
ignore_variant_always(deny) == <<"__ignore">>

\* the __ignore tag, generated unless unknown fields are denied
ignore_variant(deny) == IF ~deny THEN <<"__ignore">> ELSE <<>>

\* enum __Field { __field0, ..., [__ignore] }
field_enum(names, deny) == field_idents(names) \o ignore_variant(deny)

\* the arm a match falls to: the first whose pattern equals the scrutinee
FirstArm(patterns, scrutinee) ==
    LET hits == {i \in 1..Len(patterns) : patterns[i] = scrutinee}
    IN IF hits = {} THEN 0 ELSE CHOOSE i \in hits : \A j \in hits : i <= j

unknown_ident(variant) == IF variant THEN "unknown_variant" ELSE "unknown_field"

index_error_msg(variant) ==
    IF variant THEN "expected a variant" ELSE "expected a field"

\* the fallthrough with the is_variant test left out
fallthrough_index_arm_expr_any(variant, deny) ==
    IF ~deny THEN Ok("__ignore")
    ELSE Err("invalid_value", index_error_msg(variant), <<>>)

fallthrough_index_arm_expr(variant, deny) ==
    IF ~variant /\ ~deny THEN Ok("__ignore")
    ELSE Err("invalid_value", index_error_msg(variant), <<>>)

\* visit_usize: match value { 0 => __field0, ..., _ => fallthrough }
index_body(names, variant, deny, v) ==
    LET arm == FirstArm([i \in 1..Len(names) |-> i - 1], v)
    IN IF arm # 0 THEN Ok(field_idents(names)[arm])
       ELSE fallthrough_index_arm_expr(variant, deny)

\* the fallthrough with the deny_unknown_fields test left out
fallthrough_str_arm_expr_lenient(variant, deny, v) ==
    IF ~variant THEN Ok("__ignore")
    ELSE Err(unknown_ident(variant), "", v)

\* the fallthrough with the is_variant test left out
fallthrough_str_arm_expr_any(variant, deny, v) ==
    IF ~deny THEN Ok("__ignore")
    ELSE Err(unknown_ident(variant), "", v)

fallthrough_str_arm_expr(variant, deny, v) ==
    IF ~variant /\ ~deny THEN Ok("__ignore")
    ELSE Err(unknown_ident(variant), "", v)

\* visit_str: match value { "name0" => __field0, ..., _ => fallthrough }
str_body(names, variant, deny, v) ==
    LET arm == FirstArm(names, v)
    IN IF arm # 0 THEN Ok(field_idents(names)[arm])
       ELSE fallthrough_str_arm_expr(variant, deny, v)

\* the byte patterns taken from the code points, not from their encoding
bytes_field_names_raw(names) == [i \in 1..Len(names) |-> names[i]]

bytes_field_names(names) == [i \in 1..Len(names) |-> byte_str(names[i])]

fallthrough_bytes_arm_expr(variant, deny, v) ==
    IF ~variant /\ ~deny THEN Ok("__ignore")
    ELSE Err(unknown_ident(variant), "", from_utf8_lossy(v))

\* visit_bytes: match value { b"name0" => __field0, ..., _ => fallthrough }
bytes_body(names, variant, deny, v) ==
    LET arm == FirstArm(bytes_field_names(names), v)
    IN IF arm # 0 THEN Ok(field_idents(names)[arm])
       ELSE fallthrough_bytes_arm_expr(variant, deny, v)

\* impl Deserialize for __Field: the format calls the visit_* of the key's kind
Field_deserialize(names, variant, deny, key) ==
    CASE key.kind = "usize" -> index_body(names, variant, deny, key.n)
      [] key.kind = "str" -> str_body(names, variant, deny, key.s)
      [] key.kind = "bytes" -> bytes_body(names, variant, deny, key.s)

----------------------------------------------------------------------------
\* Schemas and inputs the specifications draw from

\* wire names of n fields or variants; renamed ones take the next pool name
WireNames(n, renamed) ==
    [i \in 1..n |-> IF renamed THEN NamePool(i) ELSE NamePool(i - 1)]

\* identifiers a format may present for a type of n names
KeysFor(n) ==
    {UsizeKey(k) : k \in 0..(n + 1)}
    \cup {StrKey(NamePool(k)) : k \in 0..(n + 1)}
    \cup {BytesKey(byte_str(NamePool(k))) : k \in 0..(n + 1)}
    \cup {BytesKey(<<255>>), BytesKey(<<195>>)}

\* the field configurations a schema of the pool cycles through
Policies == <<"Error", "Default", "DefaultExpr">>

\* field i of a named-field struct: attr::FieldAttrs::from_field's view of it
\* (the policies rotate by rot; with rot = 3 every field is required)
NamedField(i, renamed, rot, w) ==
    [name |-> NamePool(i - 1),
     wire |-> IF renamed THEN NamePool(i) ELSE NamePool(i - 1),
     missing |-> IF rot = 3 THEN "Error" ELSE Policies[((i - 1 + rot) % 3) + 1],
     with |-> ((i + w) % 2 = 0)]

UnnamedField == [name |-> <<>>, wire |-> <<>>, missing |-> "Error", with |-> FALSE]

StructShapes ==
    {[kind |-> "Struct", fields |-> [i \in 1..n |-> NamedField(i, renamed, rot, w)]] :
        n \in 0..MaxFields, renamed \in BOOLEAN, rot \in 0..3, w \in 0..1}

TupleShapes ==
    {[kind |-> "Tuple", fields |-> [i \in 1..n |-> UnnamedField]] : n \in 0..MaxFields}

UnitShape == [kind |-> "Unit", fields |-> <<>>]

\* items on the wire: 0 is an item the field's type cannot be decoded from
RawItems == {0, 1, 2}

RECURSIVE SeqsUpTo(_, _)
SeqsUpTo(S, n) ==
    IF n = 0 THEN {<<>>}
    ELSE LET shorter == SeqsUpTo(S, n - 1)
         IN shorter \cup {Append(q, x) : q \in {r \in shorter : Len(r) = n - 1}, x \in S}

----------------------------------------------------------------------------
\* Results and bookkeeping

NoIdent == Err("none", "", <<>>)

Running == [kind |-> "running", value |-> <<>>, msg |-> "", text |-> <<>>]
Done(v) == [kind |-> "Ok", value |-> v, msg |-> "", text |-> <<>>]
Fail(kind, msg, text) == [kind |-> kind, value |-> <<>>, msg |-> msg, text |-> text]

\* try!: an identifier error becomes the call's error
Propagate(e) == Fail(e.kind, e.msg, e.text)

NoCalls ==
    [visit |-> 0, end |-> 0, visit_key |-> 0, visit_value |-> 0, with |-> 0,
     ignored |-> 0, nested |-> 0, visit_variant |-> 0, visit_unit |-> 0,
     visit_newtype |-> 0, visit_tuple |-> 0, visit_struct |-> 0,
     announce |-> 0]

Called(c, op) == IF op = "" THEN c ELSE [c EXCEPT ![op] = @ + 1]

NoAnnounce == [method |-> "", len |-> 0, names |-> <<>>]

\* what the map cursor has produced: per field, how often its key came and
\* the item that followed the last time; how many keys named no field
NoWire(n) ==
    [seen |-> [i \in 1..n |-> 0], last |-> [i \in 1..n |-> 0], unknown |-> 0,
     key |-> StrKey(<<>>), exhausted |-> FALSE, key_failed |-> FALSE,
     end_failed |-> FALSE]

NoShadow == [pc |-> "", slots |-> <<>>, tag |-> "", outcome |-> Running]

NoStandalone ==
    [pc |-> "", slots |-> <<>>, ident |-> NoIdent, locals |-> <<>>,
     outcome |-> Running, op |-> ""]

----------------------------------------------------------------------------
\* The decoder's cursors (serde::de::SeqVisitor / MapVisitor), as §6 describes

None == [kind |-> "None", v |-> 0]
Some(v) == [kind |-> "Some", v |-> v]
CursorErr(kind) == [kind |-> kind, v |-> 0]

\* Deserialize::deserialize of a field's type T on one item
Deserialize_deserialize(raw) ==
    IF raw = 0 THEN CursorErr("NestedError") ELSE Some(raw)

\* SeqVisitor::visit::<T>(): the next element decoded, None at the end of the
\* sequence, the nested decode's error for an item T cannot be decoded from
SeqVisitor_visit(items, at) ==
    IF at >= Len(items) THEN None
    ELSE Deserialize_deserialize(items[at + 1])

\* SeqVisitor::end(): an error when elements are left
SeqVisitor_end(items, at) ==
    IF at < Len(items) THEN CursorErr("TrailingData") ELSE Some(0)

\* MapVisitor::visit_value::<T>()
MapVisitor_visit_value(raw) == Deserialize_deserialize(raw)

\* MapVisitor::visit_value::<IgnoredAny>(): any item is accepted and dropped
MapVisitor_visit_ignored(raw) == Some(0)

\* a field's deserialize_with function applied to the item: its own reading
deserialize_with(raw) ==
    IF raw = 0 THEN CursorErr("NestedError") ELSE Some(raw + 10)

----------------------------------------------------------------------------
\* deserialize_item_struct: classification and the visitors' entry points

FIELDS(fields) == [i \in 1..Len(fields) |-> fields[i].name]

\* the classification without the one-field guard, and with a positional
\* struct of no field taken for a unit struct
deserialize_item_struct_coercing(data) ==
    CASE data.kind = "Unit" \/ (data.kind = "Tuple" /\ Len(data.fields) = 0) ->
           [method |-> "deserialize_unit_struct", len |-> 0, names |-> <<>>]
      [] data.kind = "Tuple" /\ Len(data.fields) # 0 ->
           [method |-> "deserialize_tuple_struct", len |-> Len(data.fields),
            names |-> <<>>]
      [] data.kind = "Struct" ->
           [method |-> "deserialize_struct", len |-> 0, names |-> FIELDS(data.fields)]

\* match *variant_data: the Deserializer method the generated body calls
deserialize_item_struct(data) ==
    CASE data.kind = "Unit" ->
           [method |-> "deserialize_unit_struct", len |-> 0, names |-> <<>>]
      [] data.kind = "Tuple" /\ Len(data.fields) = 1 ->
           [method |-> "deserialize_newtype_struct", len |-> 0, names |-> <<>>]
      [] data.kind = "Tuple" /\ Len(data.fields) # 1 ->
           [method |-> "deserialize_tuple_struct", len |-> Len(data.fields),
            names |-> <<>>]
      [] data.kind = "Struct" ->
           [method |-> "deserialize_struct", len |-> 0, names |-> FIELDS(data.fields)]

\* the entry points the generated visitor of a shape implements
EntryPoints(data) ==
    CASE data.kind = "Unit" -> {"unit", "seq"}
      [] data.kind = "Tuple" /\ Len(data.fields) = 1 -> {"newtype", "seq"}
      [] data.kind = "Tuple" /\ Len(data.fields) # 1 -> {"seq"}
      [] data.kind = "Struct" -> {"seq", "map"}

\* the constructor with its arguments in reverse
struct_literal_reversed(fields, exprs) ==
    [i \in 1..Len(fields) |-> exprs[Len(fields) + 1 - i]]

\* the struct literal / constructor call: field i takes the i-th expression
struct_literal(fields, exprs) == [i \in 1..Len(fields) |-> exprs[i]]

\* the scrutinee that reads a field with its deserialize_with function
seq_let_expr_with(field, items, at) ==
    IF field.with /\ at < Len(items) THEN deserialize_with(items[at + 1])
    ELSE SeqVisitor_visit(items, at)

\* the scrutinee of a field's let in visit_seq: try!(visitor.visit()), the
\* same for every field, whatever its attributes
seq_let_expr(field, items, at) == SeqVisitor_visit(items, at)

\* the let that fills an absent position with the default instead of failing
let_value_defaulting(bound, got) ==
    CASE got.kind = "Some" -> [locals |-> Append(bound, got.v), outcome |-> Running]
      [] got.kind = "None" -> [locals |-> Append(bound, 0), outcome |-> Running]
      [] OTHER -> [locals |-> bound, outcome |-> Fail(got.kind, "", <<>>)]

\* one `let __fieldN = match try!(visitor.visit()) {..}` of deserialize_seq
\* and deserialize_struct_as_seq
let_value(bound, got) ==
    CASE got.kind = "Some" -> [locals |-> Append(bound, got.v), outcome |-> Running]
      [] got.kind = "None" ->
           [locals |-> bound, outcome |-> Fail("end_of_stream", "", <<>>)]
      [] OTHER -> [locals |-> bound, outcome |-> Fail(got.kind, "", <<>>)]

\* the nested decode's error replaced by a value
newtype_wrap_defaulting(got) ==
    IF got.kind = "Some" THEN Done(<<got.v>>) ELSE Done(<<0>>)

\* let value = try!(Deserialize::deserialize(deserializer)); Ok(Type(value))
newtype_wrap(got) ==
    IF got.kind = "Some" THEN Done(<<got.v>>) ELSE Fail(got.kind, "", <<>>)

\* the result built whatever end() reports
end_and_build_lenient(fields, bound, ended) ==
    Done(struct_literal(fields, bound))

\* `try!(visitor.end()); Ok($result)`
end_and_build(fields, bound, ended) ==
    IF ended.kind = "Some" THEN Done(struct_literal(fields, bound))
    ELSE Fail(ended.kind, "", <<>>)

----------------------------------------------------------------------------
\* deserialize_struct_visitor / deserialize_map: the visit_map body

\* the names the field visitor is generated from: deserialize_name() of each
field_exprs(fields) == [i \in 1..Len(fields) |-> fields[i].wire]

\* let mut __fieldN = None;
let_values(fields) == [i \in 1..Len(fields) |-> <<>>]

\* FieldAttrs::expr_is_missing: the default, the default expression, or
\* try!(visitor.missing_field(name))
expr_is_missing(field) ==
    CASE field.missing = "Default" -> Some(0)
      [] field.missing = "DefaultExpr" -> Some(9)
      [] OTHER -> CursorErr("missing_field")

\* the state visit_map's body is in: its place, its locals, the last cursor
\* operation it made and what it returned
MapState(at, sl, id, bound, out, op) ==
    [pc |-> at, slots |-> sl, ident |-> id, locals |-> bound, outcome |-> out,
     op |-> op]

\* the field visitor generated with is_variant taken from is_enum
deserialize_struct_visitor_as_variant(fields, deny, is_enum) ==
    [names |-> field_exprs(fields), is_variant |-> is_enum, deny |-> deny]

\* deserialize_struct_visitor: the arguments it hands deserialize_field_visitor
\* for a struct (is_enum false) and for a struct variant (is_enum true)
deserialize_struct_visitor(fields, deny, is_enum) ==
    [names |-> field_exprs(fields), is_variant |-> FALSE, deny |-> deny]

\* the struct or struct variant being decoded belongs to an enum
is_enum == enum_def # <<>>

\* while let Some(key) = try!(visitor.visit_key()), the key resolved by the
\* __Field generated from the field visitor's arguments
map_on_key_of(field_visitor, m, got) ==
    IF got.kind = "None"
    THEN MapState("extract", m.slots, NoIdent, m.locals, Running, "visit_key")
    ELSE IF got.kind # "Some"
    THEN MapState("done", m.slots, NoIdent, m.locals, Fail(got.kind, "", <<>>),
                  "visit_key")
    ELSE LET r == Field_deserialize(field_visitor.names, field_visitor.is_variant,
                                    field_visitor.deny, got.v)
         IN IF r.kind = "Ok"
            THEN MapState("map_value", m.slots, r, m.locals, Running, "visit_key")
            ELSE MapState("done", m.slots, r, m.locals, Propagate(r), "visit_key")

\* while let Some(key) = try!(visitor.visit_key())
map_on_key(fields, deny, m, got) ==
    map_on_key_of(deserialize_struct_visitor(fields, deny, is_enum), m, got)

\* the arms with the ignored value read as a typed value, not as IgnoredAny
value_arms_typed_ignore(fields, deny, sl, tag, raw) ==
    LET arm == FirstArm(field_idents(field_exprs(fields)), tag)
    IN IF arm # 0
       THEN LET got == IF fields[arm].with THEN deserialize_with(raw)
                       ELSE MapVisitor_visit_value(raw)
                op == IF fields[arm].with THEN "with" ELSE "visit_value"
            IN IF got.kind = "Some"
               THEN [slots |-> [sl EXCEPT ![arm] = <<got.v>>], outcome |-> Running,
                     op |-> op]
               ELSE [slots |-> sl, outcome |-> Fail(got.kind, "", <<>>), op |-> op]
       ELSE IF ~deny
       THEN LET got == MapVisitor_visit_value(raw)
            IN IF got.kind = "Some"
               THEN [slots |-> sl, outcome |-> Running, op |-> "ignored"]
               ELSE [slots |-> sl, outcome |-> Fail(got.kind, "", <<>>),
                     op |-> "ignored"]
       ELSE [slots |-> sl, outcome |-> Fail("no_arm", "", <<>>), op |-> ""]

\* the arms that keep the value a slot already holds
value_arms_first_wins(fields, deny, sl, tag, raw) ==
    LET arm == FirstArm(field_idents(field_exprs(fields)), tag)
    IN IF arm # 0
       THEN LET got == IF fields[arm].with THEN deserialize_with(raw)
                       ELSE MapVisitor_visit_value(raw)
                op == IF fields[arm].with THEN "with" ELSE "visit_value"
            IN IF got.kind = "Some"
               THEN [slots |-> IF sl[arm] = <<>> THEN [sl EXCEPT ![arm] = <<got.v>>]
                               ELSE sl,
                     outcome |-> Running, op |-> op]
               ELSE [slots |-> sl, outcome |-> Fail(got.kind, "", <<>>), op |-> op]
       ELSE IF ~deny
       THEN [slots |-> sl, outcome |-> Running, op |-> "ignored"]
       ELSE [slots |-> sl, outcome |-> Fail("no_arm", "", <<>>), op |-> ""]

\* the arms that start from fresh slots each time a field's value is stored
value_arms_clearing(fields, deny, sl, tag, raw) ==
    LET arm == FirstArm(field_idents(field_exprs(fields)), tag)
    IN IF arm # 0
       THEN LET got == IF fields[arm].with THEN deserialize_with(raw)
                       ELSE MapVisitor_visit_value(raw)
                op == IF fields[arm].with THEN "with" ELSE "visit_value"
            IN IF got.kind = "Some"
               THEN [slots |-> [j \in 1..Len(sl) |->
                                  IF j = arm THEN <<got.v>> ELSE <<>>],
                     outcome |-> Running, op |-> op]
               ELSE [slots |-> sl, outcome |-> Fail(got.kind, "", <<>>), op |-> op]
       ELSE IF ~deny
       THEN [slots |-> sl, outcome |-> Running, op |-> "ignored"]
       ELSE [slots |-> sl, outcome |-> Fail("no_arm", "", <<>>), op |-> ""]

\* the arms whose wildcard arm reads nothing for an ignored key
value_arms_no_discard(fields, deny, sl, tag, raw) ==
    LET arm == FirstArm(field_idents(field_exprs(fields)), tag)
    IN IF arm # 0
       THEN LET got == IF fields[arm].with THEN deserialize_with(raw)
                       ELSE MapVisitor_visit_value(raw)
                op == IF fields[arm].with THEN "with" ELSE "visit_value"
            IN IF got.kind = "Some"
               THEN [slots |-> [sl EXCEPT ![arm] = <<got.v>>], outcome |-> Running,
                     op |-> op]
               ELSE [slots |-> sl, outcome |-> Fail(got.kind, "", <<>>), op |-> op]
       ELSE IF ~deny
       THEN [slots |-> sl, outcome |-> Running, op |-> ""]
       ELSE [slots |-> sl, outcome |-> Fail("no_arm", "", <<>>), op |-> ""]

\* match key { __Field::__fieldN => { __fieldN = Some(try!($expr)); } ...
\*             _ => { try!(visitor.visit_value::<IgnoredAny>()); } }
value_arms(fields, deny, sl, tag, raw) ==
    LET arm == FirstArm(field_idents(field_exprs(fields)), tag)
    IN IF arm # 0
       THEN LET got == IF fields[arm].with THEN deserialize_with(raw)
                       ELSE MapVisitor_visit_value(raw)
                op == IF fields[arm].with THEN "with" ELSE "visit_value"
            IN IF got.kind = "Some"
               THEN [slots |-> [sl EXCEPT ![arm] = <<got.v>>], outcome |-> Running,
                     op |-> op]
               ELSE [slots |-> sl, outcome |-> Fail(got.kind, "", <<>>), op |-> op]
       ELSE IF ~deny
       THEN LET got == MapVisitor_visit_ignored(raw)
            IN [slots |-> sl, outcome |-> Running, op |-> "ignored"]
       ELSE [slots |-> sl, outcome |-> Fail("no_arm", "", <<>>), op |-> ""]

\* the loop that goes on to the next key when a value read failed
map_on_value_resuming(fields, deny, m, raw) ==
    LET a == value_arms(fields, deny, m.slots, m.ident.tag, raw)
    IN MapState("map_key", a.slots, NoIdent, m.locals, Running, a.op)

\* one turn of the loop body: the arm's try! ends the call on an error
map_on_value(fields, deny, m, raw) ==
    LET a == value_arms(fields, deny, m.slots, m.ident.tag, raw)
    IN MapState(IF a.outcome = Running THEN "map_key" ELSE "done",
                a.slots, NoIdent, m.locals, a.outcome, a.op)

\* the extraction that lets a field's default override its decoded value
extract_values_default_first(fields, sl) ==
    LET resolved == [i \in 1..Len(fields) |->
                        IF sl[i] # <<>> /\ fields[i].missing = "Error"
                        THEN Some(sl[i][1])
                        ELSE expr_is_missing(fields[i])]
        failed == {i \in 1..Len(fields) : resolved[i].kind # "Some"}
    IN IF failed = {}
       THEN [locals |-> [i \in 1..Len(fields) |-> resolved[i].v], outcome |-> Running]
       ELSE LET i == CHOOSE k \in failed : \A j \in failed : k <= j
            IN [locals |-> <<>>,
                outcome |-> Fail(resolved[i].kind, "", fields[i].wire)]

\* the extraction that resolves the fields from the last to the first
extract_values_last_first(fields, sl) ==
    LET resolved == [i \in 1..Len(fields) |->
                        IF sl[i] # <<>> THEN Some(sl[i][1])
                        ELSE expr_is_missing(fields[i])]
        failed == {i \in 1..Len(fields) : resolved[i].kind # "Some"}
    IN IF failed = {}
       THEN [locals |-> [i \in 1..Len(fields) |-> resolved[i].v], outcome |-> Running]
       ELSE LET i == CHOOSE k \in failed : \A j \in failed : k >= j
            IN [locals |-> <<>>,
                outcome |-> Fail(resolved[i].kind, "", fields[i].wire)]

\* let __fieldN = match __fieldN { Some(v) => v, None => $missing_expr };
\* in declaration order: the first field that cannot be resolved ends the call
extract_values(fields, sl) ==
    LET resolved == [i \in 1..Len(fields) |->
                        IF sl[i] # <<>> THEN Some(sl[i][1])
                        ELSE expr_is_missing(fields[i])]
        failed == {i \in 1..Len(fields) : resolved[i].kind # "Some"}
    IN IF failed = {}
       THEN [locals |-> [i \in 1..Len(fields) |-> resolved[i].v], outcome |-> Running]
       ELSE LET i == CHOOSE k \in failed : \A j \in failed : k <= j
            IN [locals |-> <<>>,
                outcome |-> Fail(resolved[i].kind, "", fields[i].wire)]

map_on_extract(fields, m) ==
    LET e == extract_values(fields, m.slots)
    IN MapState(IF e.outcome = Running THEN "map_end" ELSE "done",
                m.slots, NoIdent, e.locals, e.outcome, "")

\* end() called inside the loop: the next key is asked for after it
map_on_end_in_loop(fields, m, ended) ==
    MapState("map_key", m.slots, NoIdent, m.locals, Running, "end")

\* try!(visitor.end()); Ok($result)
map_on_end(fields, m, ended) ==
    MapState("done", m.slots, NoIdent, m.locals,
             end_and_build(fields, m.locals, ended), "end")

----------------------------------------------------------------------------
\* Bookkeeping of what the map cursor produced (not part of the program)

\* the field a key names: by position, by wire name, or by the wire name's bytes
KeyField(fields, key) ==
    LET hits == {i \in 1..Len(fields) :
                    \/ key.kind = "usize" /\ key.n = i - 1
                    \/ key.kind = "str" /\ key.s = fields[i].wire
                    \/ key.kind = "bytes" /\ key.s = byte_str(fields[i].wire)}
    IN IF hits = {} THEN 0 ELSE CHOOSE i \in hits : TRUE

\* the text of a key, as an error message would carry it
KeyText(key) == IF key.kind = "bytes" THEN from_utf8_lossy(key.s) ELSE key.s

WireKey(fields, w, key) ==
    LET f == KeyField(fields, key)
    IN [w EXCEPT !.key = key,
                 !.unknown = IF f = 0 THEN @ + 1 ELSE @,
                 !.seen = IF f = 0 THEN @ ELSE [@ EXCEPT ![f] = @ + 1]]

WireValue(fields, w, raw) ==
    LET f == KeyField(fields, w.key)
    IN IF f = 0 THEN w ELSE [w EXCEPT !.last = [@ EXCEPT ![f] = raw]]

\* the shadow decoder moves only when it stands where the decoder stands
ShadowStep(sh, at, next) == IF sh.pc = at THEN next ELSE sh

\* a standalone named-field struct of the same fields and container policy,
\* as it enters the visitor the format calls
standalone_start(fields) ==
    MapState(CASE form = "map" -> "map_key" [] form = "seq" -> "visit_seq"
               [] OTHER -> "",
             IF form = "map" THEN let_values(fields) ELSE <<>>,
             NoIdent, <<>>, Running, "")

\* the steps of the standalone struct's visit_seq and visit_map
struct_on_let(m, got) ==
    LET r == let_value(m.locals, got)
    IN MapState(IF r.outcome = Running THEN "visit_seq" ELSE "done",
                m.slots, NoIdent, r.locals, r.outcome, "visit")

struct_on_seq_end(fields, m, ended) ==
    MapState("done", m.slots, NoIdent, m.locals,
             end_and_build(fields, m.locals, ended), "end")

struct_on_key(fields, deny, m, got) ==
    map_on_key_of(deserialize_struct_visitor(fields, deny, FALSE), m, got)

----------------------------------------------------------------------------
\* Spec: one struct decoded, through the entry point the format chooses

Cur == MapState(pc, slots, ident, locals, outcome, "")

Init ==
    /\ variant_data \in StructShapes \cup TupleShapes \cup {UnitShape}
    /\ deny_unknown_fields \in BOOLEAN
    /\ form \in EntryPoints(variant_data)
    /\ input \in (CASE form = "seq" -> SeqsUpTo(RawItems, MaxLen)
                    [] form = "newtype" -> {<<r>> : r \in RawItems}
                    [] OTHER -> {<<>>})
    /\ field_names = field_exprs(variant_data.fields)
    /\ is_variant = FALSE
    /\ value = StrKey(<<>>)
    /\ ident = NoIdent
    /\ pc = "start"
    /\ pos = 0
    /\ locals = <<>>
    /\ slots = <<>>
    /\ outcome = Running
    /\ calls = NoCalls
    /\ announce = NoAnnounce
    /\ enum_def = <<>>
    /\ arm_taken = ""
    /\ continuation = NoAnnounce
    /\ variant_ident = <<>>
    /\ wire = NoWire(Len(variant_data.fields))
    /\ shadow = NoShadow
    /\ standalone = NoStandalone
    /\ batch = <<>>
    /\ pushed = <<>>
    /\ span_err = <<>>

schemaVars == <<variant_data, deny_unknown_fields, form, input, field_names,
                is_variant, enum_def, arm_taken, continuation, variant_ident,
                batch, pushed, span_err>>

\* Deserialize::deserialize: the type announces itself; the format then calls
\* the visitor's entry point for the representation it meets
deserialize ==
    /\ pc = "start"
    /\ announce' = deserialize_item_struct(variant_data)
    /\ pc' = (CASE form = "unit" -> "visit_unit"
                [] form = "newtype" -> "visit_newtype_struct"
                [] form = "seq" -> "visit_seq"
                [] form = "map" -> "map_key")
    /\ slots' = IF form = "map" THEN let_values(variant_data.fields) ELSE slots
    /\ shadow' = IF form = "map"
                 THEN MapState("map_key", let_values(variant_data.fields), NoIdent,
                               <<>>, Running, "")
                 ELSE shadow
    /\ calls' = Called(calls, "announce")
    /\ UNCHANGED <<schemaVars, value, ident, pos, locals, outcome, wire>>
    /\ standalone' = standalone_start(variant_data.fields)

\* visit_unit: Ok($type_ident)
visit_unit ==
    /\ pc = "visit_unit"
    /\ outcome' = Done(<<>>)
    /\ pc' = "done"
    /\ UNCHANGED <<schemaVars, value, ident, pos, locals, slots, calls, announce,
                   wire, shadow>>
    /\ UNCHANGED standalone

\* visit_newtype_struct: one nested decode, wrapped
visit_newtype_struct ==
    /\ pc = "visit_newtype_struct"
    /\ outcome' = newtype_wrap(Deserialize_deserialize(input[1]))
    /\ calls' = Called(calls, "nested")
    /\ pc' = "done"
    /\ UNCHANGED <<schemaVars, value, ident, pos, locals, slots, announce, wire,
                   shadow>>
    /\ UNCHANGED standalone

\* visit_seq, one `let __fieldN = ...` statement
visit_seq_let ==
    /\ pc = "visit_seq"
    /\ Len(locals) < Len(variant_data.fields)
    /\ LET got == seq_let_expr(variant_data.fields[Len(locals) + 1], input, pos)
           r == let_value(locals, got)
       IN /\ locals' = r.locals
          /\ outcome' = r.outcome
          /\ pc' = IF r.outcome = Running THEN "visit_seq" ELSE "done"
          /\ pos' = IF got.kind = "Some" THEN pos + 1 ELSE pos
    /\ calls' = Called(calls, "visit")
    /\ UNCHANGED <<schemaVars, value, ident, slots, announce, wire, shadow>>
    /\ standalone' = ShadowStep(standalone, pc,
                         struct_on_let(standalone,
                             seq_let_expr(variant_data.fields[Len(locals) + 1],
                                          input, pos)))

\* visit_seq, after the last let: try!(visitor.end()); Ok($result)
visit_seq_end ==
    /\ pc = "visit_seq"
    /\ Len(locals) = Len(variant_data.fields)
    /\ outcome' = end_and_build(variant_data.fields, locals,
                                SeqVisitor_end(input, pos))
    /\ calls' = Called(calls, "end")
    /\ pc' = "done"
    /\ UNCHANGED <<schemaVars, value, ident, pos, locals, slots, announce, wire,
                   shadow>>
    /\ standalone' = ShadowStep(standalone, pc,
                         struct_on_seq_end(variant_data.fields, standalone,
                                           SeqVisitor_end(input, pos)))

\* the keys a map may hold for a struct of these fields
MapKeys(fields) ==
    LET n == Len(fields)
    IN {UsizeKey(k) : k \in 0..n}
       \cup {StrKey(NamePool(k)) : k \in 0..n}
       \cup {BytesKey(byte_str(NamePool(k))) : k \in 0..n}
       \cup {BytesKey(<<255>>)}

SetCur(m) ==
    /\ pc' = m.pc
    /\ slots' = m.slots
    /\ ident' = m.ident
    /\ locals' = m.locals
    /\ outcome' = m.outcome
    /\ calls' = Called(calls, m.op)

\* visit_map: visit_key returns a key, which is resolved to a __Field tag
visit_map_key ==
    /\ pc = "map_key"
    /\ pos < MaxLen
    /\ \E key \in MapKeys(variant_data.fields) :
         /\ SetCur(map_on_key(variant_data.fields, deny_unknown_fields, Cur, Some(key)))
         /\ wire' = WireKey(variant_data.fields, wire, key)
         /\ standalone' = ShadowStep(standalone, pc,
                              struct_on_key(variant_data.fields, deny_unknown_fields,
                                            standalone, Some(key)))
         /\ shadow' = IF KeyField(variant_data.fields, key) = 0 THEN shadow
                      ELSE ShadowStep(shadow, "map_key",
                               map_on_key(variant_data.fields, deny_unknown_fields,
                                          shadow, Some(key)))
    /\ pos' = pos + 1
    /\ UNCHANGED <<schemaVars, value, announce>>

\* visit_map: visit_key returns the cursor's own error
visit_map_key_fails ==
    /\ pc = "map_key"
    /\ SetCur(map_on_key(variant_data.fields, deny_unknown_fields, Cur,
                         CursorErr("KeyError")))
    /\ shadow' = ShadowStep(shadow, "map_key",
                     map_on_key(variant_data.fields, deny_unknown_fields, shadow,
                                CursorErr("KeyError")))
    /\ wire' = [wire EXCEPT !.key_failed = TRUE]
    /\ UNCHANGED <<schemaVars, value, pos, announce>>
    /\ standalone' = ShadowStep(standalone, pc,
                         struct_on_key(variant_data.fields, deny_unknown_fields,
                                       standalone, CursorErr("KeyError")))

\* visit_map: visit_key returns None, the loop ends
visit_map_exhausted ==
    /\ pc = "map_key"
    /\ SetCur(map_on_key(variant_data.fields, deny_unknown_fields, Cur, None))
    /\ shadow' = ShadowStep(shadow, "map_key",
                     map_on_key(variant_data.fields, deny_unknown_fields, shadow, None))
    /\ wire' = [wire EXCEPT !.exhausted = TRUE]
    /\ UNCHANGED <<schemaVars, value, pos, announce>>
    /\ standalone' = ShadowStep(standalone, pc,
                         struct_on_key(variant_data.fields, deny_unknown_fields,
                                       standalone, None))

\* visit_map: the arm of the key reads (or drops) the value
visit_map_value ==
    /\ pc = "map_value"
    /\ \E raw \in RawItems :
         /\ SetCur(map_on_value(variant_data.fields, deny_unknown_fields, Cur, raw))
         /\ wire' = WireValue(variant_data.fields, wire, raw)
         /\ standalone' = ShadowStep(standalone, pc,
                              map_on_value(variant_data.fields, deny_unknown_fields,
                                           standalone, raw))
         /\ shadow' = IF KeyField(variant_data.fields, wire.key) = 0 THEN shadow
                      ELSE ShadowStep(shadow, "map_value",
                               map_on_value(variant_data.fields, deny_unknown_fields,
                                            shadow, raw))
    /\ UNCHANGED <<schemaVars, value, pos, announce>>

\* visit_map: the slots are resolved, in declaration order
visit_map_extract ==
    /\ pc = "extract"
    /\ SetCur(map_on_extract(variant_data.fields, Cur))
    /\ shadow' = ShadowStep(shadow, "extract",
                     map_on_extract(variant_data.fields, shadow))
    /\ UNCHANGED <<schemaVars, value, pos, announce, wire>>
    /\ standalone' = ShadowStep(standalone, pc,
                         map_on_extract(variant_data.fields, standalone))

\* visit_map: try!(visitor.end()); Ok($result)
visit_map_end ==
    /\ pc = "map_end"
    /\ \E ended \in {Some(0), CursorErr("TrailingData")} :
         /\ SetCur(map_on_end(variant_data.fields, Cur, ended))
         /\ wire' = [wire EXCEPT !.end_failed = (ended.kind # "Some")]
         /\ standalone' = ShadowStep(standalone, pc,
                              map_on_end(variant_data.fields, standalone, ended))
         /\ shadow' = ShadowStep(shadow, "map_end",
                          map_on_end(variant_data.fields, shadow, ended))
    /\ UNCHANGED <<schemaVars, value, pos, announce>>

Next ==
    \/ deserialize
    \/ visit_unit
    \/ visit_newtype_struct
    \/ visit_seq_let
    \/ visit_seq_end
    \/ visit_map_key
    \/ visit_map_key_fails
    \/ visit_map_exhausted
    \/ visit_map_value
    \/ visit_map_extract
    \/ visit_map_end

Spec == Init /\ [][Next]_vars

----------------------------------------------------------------------------
\* SpecEnum: one enum decoded (deserialize_item_enum, deserialize_variant)

\* the shapes the variants of the pool cycle through
VariantShapes ==
    <<UnitShape,
      [kind |-> "Tuple", fields |-> <<UnnamedField>>],
      [kind |-> "Tuple", fields |-> [i \in 1..MaxFields |-> UnnamedField]],
      [kind |-> "Tuple", fields |-> <<>>],
      [kind |-> "Struct", fields |-> [i \in 1..MaxFields |-> NamedField(i, FALSE, 0, 0)]],
      [kind |-> "Struct", fields |-> [i \in 1..MaxFields |-> NamedField(i, TRUE, 1, 1)]]>>

Variant(j, renamed, rot) ==
    [name |-> NamePool(j - 1),
     wire |-> IF renamed THEN NamePool(j) ELSE NamePool(j - 1),
     data |-> VariantShapes[((j - 1 + rot) % Len(VariantShapes)) + 1]]

EnumDefs ==
    {[j \in 1..m |-> Variant(j, renamed, rot)] :
        m \in 0..MaxFields, renamed \in BOOLEAN, rot \in 0..(Len(VariantShapes) - 1)}

\* const VARIANTS: the names announced to deserialize_enum
VARIANTS(variants) == [j \in 1..Len(variants) |-> variants[j].name]

\* the names the variant visitor is generated from: deserialize_name() of each
variant_names(variants) == [j \in 1..Len(variants) |-> variants[j].wire]

\* the payload representations the format may hold for a variant of a shape
PayloadForms(data) ==
    CASE data.kind = "Unit" -> {"unit"}
      [] data.kind = "Tuple" /\ Len(data.fields) = 1 -> {"newtype"}
      [] data.kind = "Tuple" /\ Len(data.fields) # 1 -> {"seq"}
      [] data.kind = "Struct" -> {"seq", "map"}

InitEnum ==
    /\ enum_def \in EnumDefs
    /\ deny_unknown_fields \in BOOLEAN
    /\ value \in KeysFor(Len(enum_def))
    /\ form \in (IF KeyField(enum_def, value) = 0 THEN {"unit"}
                 ELSE PayloadForms(enum_def[KeyField(enum_def, value)].data))
    /\ input \in (CASE form = "seq" -> SeqsUpTo(RawItems, MaxLen)
                    [] form = "newtype" -> {<<r>> : r \in RawItems}
                    [] OTHER -> {<<>>})
    /\ variant_data = UnitShape
    /\ field_names = variant_names(enum_def)
    /\ is_variant = TRUE
    /\ ident = NoIdent
    /\ pc = "start"
    /\ pos = 0
    /\ locals = <<>>
    /\ slots = <<>>
    /\ outcome = Running
    /\ calls = NoCalls
    /\ announce = NoAnnounce
    /\ arm_taken = ""
    /\ continuation = NoAnnounce
    /\ variant_ident = <<>>
    /\ wire = NoWire(0)
    /\ shadow = NoShadow
    /\ standalone = NoStandalone
    /\ batch = <<>>
    /\ pushed = <<>>
    /\ span_err = <<>>

\* Deserialize::deserialize of the enum: deserializer.deserialize_enum(..)
deserialize_enum ==
    /\ pc = "start"
    /\ announce' = [method |-> "deserialize_enum", len |-> 0,
                    names |-> VARIANTS(enum_def)]
    /\ pc' = "visit_variant"
    /\ calls' = Called(calls, "announce")
    /\ UNCHANGED <<schemaVars, value, ident, pos, locals, slots, outcome, wire,
                   shadow>>
    /\ UNCHANGED standalone

\* EnumVisitor::visit: try!(visitor.visit_variant()), the tag resolved by the
\* variant visitor's __Field
visit_variant ==
    /\ pc = "visit_variant"
    /\ LET r == Field_deserialize(variant_names(enum_def), TRUE,
                                  deny_unknown_fields, value)
       IN /\ ident' = r
          /\ outcome' = IF r.kind = "Ok" THEN Running ELSE Propagate(r)
          /\ pc' = IF r.kind = "Ok" THEN "variant_arm" ELSE "done"
    /\ calls' = Called(calls, "visit_variant")
    /\ UNCHANGED <<schemaVars, value, pos, locals, slots, announce, wire, shadow>>
    /\ UNCHANGED standalone

\* the methods of serde::de::Deserializer a type announces itself by
DeserializerMethods ==
    {"deserialize_unit_struct", "deserialize_newtype_struct",
     "deserialize_tuple_struct", "deserialize_struct", "deserialize_enum"}

\* a struct variant whose expression ends as deserialize_struct's does
deserialize_variant_reannouncing(data) ==
    CASE data.kind = "Unit" ->
           [method |-> "visit_unit", len |-> 0, names |-> <<>>]
      [] data.kind = "Tuple" /\ Len(data.fields) = 1 ->
           [method |-> "visit_newtype", len |-> 0, names |-> <<>>]
      [] data.kind = "Tuple" /\ Len(data.fields) # 1 ->
           [method |-> "visit_tuple", len |-> Len(data.fields), names |-> <<>>]
      [] data.kind = "Struct" ->
           [method |-> "deserialize_struct", len |-> 0,
            names |-> FIELDS(data.fields)]

\* what the arm of a variant does first: deserialize_variant
deserialize_variant(data) ==
    CASE data.kind = "Unit" ->
           [method |-> "visit_unit", len |-> 0, names |-> <<>>]
      [] data.kind = "Tuple" /\ Len(data.fields) = 1 ->
           [method |-> "visit_newtype", len |-> 0, names |-> <<>>]
      [] data.kind = "Tuple" /\ Len(data.fields) # 1 ->
           [method |-> "visit_tuple", len |-> Len(data.fields), names |-> <<>>]
      [] data.kind = "Struct" ->
           [method |-> "visit_struct", len |-> 0, names |-> FIELDS(data.fields)]

\* the arms with every tag dispatched to the first variant's expression
variant_arms_first(variants, deny, tag) ==
    LET i == FirstArm(field_idents(variant_names(variants)), tag)
    IN IF i # 0 THEN [arm |-> tag, index |-> 1]
       ELSE IF ~deny THEN [arm |-> "__ignore", index |-> 0]
       ELSE [arm |-> "", index |-> 0]

\* the arm `match try!(visitor.visit_variant())` takes: variant_arms, then
\* the __ignore arm when unknown fields are allowed
variant_arms(variants, deny, tag) ==
    LET i == FirstArm(field_idents(variant_names(variants)), tag)
    IN IF i # 0 THEN [arm |-> tag, index |-> i]
       ELSE IF ~deny THEN [arm |-> "__ignore", index |-> 0]
       ELSE [arm |-> "", index |-> 0]

\* match try!(visitor.visit_variant()) { $variant_arms }
variant_arm ==
    /\ pc = "variant_arm"
    /\ LET a == variant_arms(enum_def, deny_unknown_fields, ident.tag)
       IN /\ arm_taken' = a.arm
          /\ IF a.index # 0
             THEN LET data == enum_def[a.index].data
                      k == deserialize_variant(data)
                  IN /\ variant_data' = data
                     /\ variant_ident' = enum_def[a.index].name
                     /\ IF k.method \in DeserializerMethods
                        THEN /\ announce' = k
                             /\ calls' = Called(calls, "announce")
                             /\ UNCHANGED continuation
                        ELSE /\ continuation' = k
                             /\ calls' = Called(calls, k.method)
                             /\ UNCHANGED announce
                     /\ outcome' = Running
                     /\ pc' = (CASE k.method = "visit_unit" -> "variant_unit"
                                 [] k.method = "visit_newtype" -> "variant_newtype"
                                 [] form = "map" -> "map_key"
                                 [] OTHER -> "visit_seq")
                     /\ slots' = IF form = "map" THEN let_values(data.fields)
                                 ELSE slots
                     /\ wire' = NoWire(Len(data.fields))
                     /\ standalone' = standalone_start(data.fields)
                     /\ shadow' = IF form = "map"
                                  THEN MapState("map_key", let_values(data.fields),
                                                NoIdent, <<>>, Running, "")
                                  ELSE shadow
             ELSE /\ outcome' = Fail("end_of_stream", "", <<>>)
                  /\ pc' = "done"
                  /\ UNCHANGED <<variant_data, variant_ident, continuation, calls,
                                 slots, wire, shadow, standalone, announce>>
    /\ UNCHANGED <<deny_unknown_fields, form, input, field_names, is_variant,
                   enum_def, value, ident, pos, locals, batch, pushed, span_err>>

\* a unit variant: try!(visitor.visit_unit()); Ok(Type::Variant)
variant_unit ==
    /\ pc = "variant_unit"
    /\ outcome' = Done(<<>>)
    /\ pc' = "done"
    /\ UNCHANGED <<schemaVars, value, ident, pos, locals, slots, calls, announce,
                   wire, shadow>>
    /\ UNCHANGED standalone

\* a one-field variant: let val = try!(visitor.visit_newtype()); Ok(..(val))
variant_newtype ==
    /\ pc = "variant_newtype"
    /\ outcome' = newtype_wrap(Deserialize_deserialize(input[1]))
    /\ calls' = Called(calls, "nested")
    /\ pc' = "done"
    /\ UNCHANGED <<schemaVars, value, ident, pos, locals, slots, announce, wire,
                   shadow>>
    /\ UNCHANGED standalone

NextEnum ==
    \/ deserialize_enum
    \/ visit_variant
    \/ variant_arm
    \/ variant_unit
    \/ variant_newtype
    \/ visit_seq_let
    \/ visit_seq_end
    \/ visit_map_key
    \/ visit_map_key_fails
    \/ visit_map_exhausted
    \/ visit_map_value
    \/ visit_map_extract
    \/ visit_map_end

SpecEnum == InitEnum /\ [][NextEnum]_vars

----------------------------------------------------------------------------
\* SpecIdent: one identifier resolved by the generated __FieldVisitor

InitIdent ==
    /\ \E n \in 0..MaxFields, renamed \in BOOLEAN :
         /\ field_names = WireNames(n, renamed)
         /\ value \in KeysFor(n)
    /\ deny_unknown_fields \in BOOLEAN
    /\ is_variant \in BOOLEAN
    /\ ident = NoIdent
    /\ pc = "field"
    /\ variant_data = [kind |-> "Unit", fields |-> <<>>]
    /\ form = "ident"
    /\ input = <<>>
    /\ pos = 0
    /\ locals = <<>>
    /\ slots = <<>>
    /\ outcome = Running
    /\ calls = NoCalls
    /\ announce = NoAnnounce
    /\ enum_def = <<>>
    /\ arm_taken = ""
    /\ continuation = NoAnnounce
    /\ variant_ident = <<>>
    /\ wire = NoWire(0)
    /\ shadow = NoShadow
    /\ standalone = NoStandalone
    /\ batch = <<>>
    /\ pushed = <<>>
    /\ span_err = <<>>

visit_usize ==
    /\ pc = "field"
    /\ value.kind = "usize"
    /\ ident' = index_body(field_names, is_variant, deny_unknown_fields, value.n)
    /\ pc' = "done"
    /\ UNCHANGED <<field_names, deny_unknown_fields, is_variant, value, runVars>>

visit_str ==
    /\ pc = "field"
    /\ value.kind = "str"
    /\ ident' = str_body(field_names, is_variant, deny_unknown_fields, value.s)
    /\ pc' = "done"
    /\ UNCHANGED <<field_names, deny_unknown_fields, is_variant, value, runVars>>

visit_bytes ==
    /\ pc = "field"
    /\ value.kind = "bytes"
    /\ ident' = bytes_body(field_names, is_variant, deny_unknown_fields, value.s)
    /\ pc' = "done"
    /\ UNCHANGED <<field_names, deny_unknown_fields, is_variant, value, runVars>>

NextIdent == visit_usize \/ visit_str \/ visit_bytes

SpecIdent == InitIdent /\ [][NextIdent]_vars

----------------------------------------------------------------------------
\* SpecGen: expand_derive_deserialize run over a batch of annotated items

\* Largest number of annotatables the derive is expanded on in one run.
MaxBatch == 2

\* ast::Generics: the number of lifetimes and the type parameters in order,
\* each with its bounds in order
NamedTyParam(i, bounded) ==
    [ident |-> "T" \o ToString(i),
     bounds |-> IF bounded /\ i = 1 THEN <<"Clone">> ELSE <<>>]

Generics(n, bounded) ==
    [lifetimes |-> n % 2, ty_params |-> [i \in 1..n |-> NamedTyParam(i, bounded)]]

NoGenerics == Generics(0, FALSE)

GenericsPool == {Generics(n, bounded) : n \in 0..MaxFields, bounded \in BOOLEAN}

\* the shapes of the structs the derive is applied to
ItemShapes ==
    {UnitShape,
     [kind |-> "Tuple", fields |-> <<UnnamedField>>],
     [kind |-> "Tuple", fields |-> [i \in 1..MaxFields |-> UnnamedField]],
     [kind |-> "Struct", fields |-> [i \in 1..MaxFields |-> NamedField(i, FALSE, 0, 0)]]}

\* the variant lists of the enums the derive is applied to
ItemVariants ==
    {<<>>,
     <<UnitShape, [kind |-> "Tuple", fields |-> [i \in 1..MaxFields |-> UnnamedField]]>>,
     <<[kind |-> "Tuple", fields |-> <<UnnamedField>>],
       [kind |-> "Struct", fields |-> [i \in 1..MaxFields |-> NamedField(i, TRUE, 0, 0)]]>>}

\* an annotatable: `bad` tells which serde attribute of it, if any, is
\* malformed ("container", "variant", "field")
Annotatable(is_item, node, data, variants, generics, bad) ==
    [is_item |-> is_item, node |-> node, data |-> data, variants |-> variants,
     generics |-> generics, bad |-> bad]

Annotatables ==
    {Annotatable(FALSE, "Fn", UnitShape, <<>>, NoGenerics, ""),
     Annotatable(TRUE, "Fn", UnitShape, <<>>, NoGenerics, "")}
    \cup {Annotatable(TRUE, "Struct", d, <<>>, g, "") :
             d \in ItemShapes, g \in GenericsPool}
    \cup {Annotatable(TRUE, "Struct", d, <<>>, NoGenerics, b) :
             d \in ItemShapes, b \in {"container", "field"}}
    \cup {Annotatable(TRUE, "Enum", UnitShape, vs, g, "") :
             vs \in ItemVariants, g \in GenericsPool}
    \cup {Annotatable(TRUE, "Enum", UnitShape, vs, NoGenerics, b) :
             vs \in ItemVariants, b \in {"container", "variant", "field"}}

\* attr::ContainerAttrs::from_item, VariantAttrs::from_variant and
\* FieldAttrs::from_field: a malformed attribute is reported and is an Err
attr_from(item, what) ==
    [ok |-> item.bad # what,
     diags |-> IF item.bad = what THEN <<"malformed serde attribute">> ELSE <<>>]

\* the result of building a body: Ok with the visitors synthesized, or Err
\* with what was reported on the way
BodyOk(visitors) == [ok |-> TRUE, diags |-> <<>>, visitors |-> visitors]
BodyErr(diags) == [ok |-> FALSE, diags |-> diags, visitors |-> <<>>]

\* builder.from_generics(generics).add_ty_param_bound(::serde::de::Deserialize)
impl_generics(generics) ==
    [lifetimes |-> generics.lifetimes,
     ty_params |-> [i \in 1..Len(generics.ty_params) |->
                      [ident |-> generics.ty_params[i].ident,
                       bounds |-> Append(generics.ty_params[i].bounds,
                                         "::serde::de::Deserialize")]]]

deserializer_ty_param == [ident |-> "__D", bounds |-> <<"::serde::de::Deserializer">>]

deserializer_ty_arg == "__D"

\* the visitor with the forwarded parameters after the type's own
deserialize_visitor_appending(trait_generics, forward_ty_params, forward_tys) ==
    LET g == [lifetimes |-> trait_generics.lifetimes,
              ty_params |-> trait_generics.ty_params \o forward_ty_params]
    IN [generics |-> g,
        phantoms |-> g.lifetimes + Len(g.ty_params),
        expr_tys |-> forward_tys
                     \o [i \in 1..Len(trait_generics.ty_params) |->
                           trait_generics.ty_params[i].ident]]

\* deserialize_visitor: `__Visitor<A, B, ...>(PhantomData<A>, ...)`, its
\* generics and the type arguments of the expression that builds it
deserialize_visitor(trait_generics, forward_ty_params, forward_tys) ==
    IF trait_generics.ty_params = <<>> /\ forward_tys = <<>>
    THEN [generics |-> trait_generics, phantoms |-> 0, expr_tys |-> <<>>]
    ELSE LET placeholders == [i \in 1..Len(trait_generics.ty_params) |->
                                trait_generics.ty_params[i].ident]
             g == [lifetimes |-> trait_generics.lifetimes,
                   ty_params |-> forward_ty_params \o trait_generics.ty_params]
         IN [generics |-> g,
             phantoms |-> g.lifetimes + Len(g.ty_params),
             expr_tys |-> forward_tys \o placeholders]

\* the visitor every generated body but the unit struct's asks for
forwarding_visitor(generics) ==
    deserialize_visitor(generics, <<deserializer_ty_param>>, <<deserializer_ty_arg>>)

\* deserialize_unit_struct: `struct __Visitor;`
deserialize_unit_struct ==
    BodyOk(<<[generics |-> NoGenerics, phantoms |-> 0, expr_tys |-> <<>>]>>)

\* deserialize_newtype_struct and deserialize_tuple_struct
deserialize_tuple_struct(generics) == BodyOk(<<forwarding_visitor(generics)>>)

\* deserialize_struct: the visitor, then deserialize_struct_visitor, which
\* reads every field's attributes
deserialize_struct(item, generics) ==
    LET field_attrs == attr_from(item, "field")
    IN IF field_attrs.ok THEN BodyOk(<<forwarding_visitor(generics)>>)
       ELSE BodyErr(field_attrs.diags)

RECURSIVE variant_exprs(_, _, _)
\* the loop over the variants: deserialize_variant of each, the first Err
\* ends the loop
variant_exprs(item, generics, variants) ==
    IF variants = <<>> THEN BodyOk(<<>>)
    ELSE LET data == Head(variants)
             this == CASE data.kind = "Struct" -> deserialize_struct(item, generics)
                       [] data.kind = "Tuple" /\ Len(data.fields) # 1 ->
                            deserialize_tuple_struct(generics)
                       [] OTHER -> BodyOk(<<>>)
         IN IF ~this.ok THEN this
            ELSE LET rest == variant_exprs(item, generics, Tail(variants))
                 IN IF rest.ok THEN BodyOk(this.visitors \o rest.visitors)
                    ELSE rest

\* deserialize_item_enum: the variants' attributes, the variants' arms, then
\* the enum's own visitor
deserialize_item_enum(item, generics) ==
    LET variant_attrs == attr_from(item, "variant")
    IN IF ~variant_attrs.ok THEN BodyErr(variant_attrs.diags)
       ELSE LET arms == variant_exprs(item, generics, item.variants)
            IN IF arms.ok
               THEN BodyOk(arms.visitors \o <<forwarding_visitor(generics)>>)
               ELSE arms

\* deserialize_body
deserialize_body(item, generics) ==
    LET container_attrs == attr_from(item, "container")
    IN IF ~container_attrs.ok THEN BodyErr(container_attrs.diags)
       ELSE IF item.node = "Enum" THEN deserialize_item_enum(item, generics)
       ELSE CASE item.data.kind = "Unit" -> deserialize_unit_struct
              [] item.data.kind = "Tuple" -> deserialize_tuple_struct(generics)
              [] item.data.kind = "Struct" -> deserialize_struct(item, generics)

\* the message of the two span_err calls of expand_derive_deserialize
NotStructOrEnum == "may only be applied to structs and enums"

\* the expansion that emits the impl although the body could not be built
expand_derive_deserialize_pushing(annotatable, k) ==
    IF ~annotatable.is_item \/ annotatable.node \notin {"Struct", "Enum"}
    THEN [push |-> <<>>, err |-> <<[for |-> k, msg |-> NotStructOrEnum]>>]
    ELSE LET generics == impl_generics(annotatable.generics)
             body == deserialize_body(annotatable, generics)
         IN [push |-> <<[for |-> k, generics |-> generics,
                         visitors |-> body.visitors]>>,
             err |-> [i \in 1..Len(body.diags) |->
                        [for |-> k, msg |-> body.diags[i]]]]

\* expand_derive_deserialize on the k-th annotatable: what it hands to push
\* and what it reports
expand_derive_deserialize(annotatable, k) ==
    IF ~annotatable.is_item \/ annotatable.node \notin {"Struct", "Enum"}
    THEN [push |-> <<>>, err |-> <<[for |-> k, msg |-> NotStructOrEnum]>>]
    ELSE LET generics == impl_generics(annotatable.generics)
             body == deserialize_body(annotatable, generics)
         IN IF body.ok
            THEN [push |-> <<[for |-> k, generics |-> generics,
                              visitors |-> body.visitors]>>,
                  err |-> <<>>]
            ELSE [push |-> <<>>,
                  err |-> [i \in 1..Len(body.diags) |->
                             [for |-> k, msg |-> body.diags[i]]]]

InitGen ==
    /\ batch = <<>>
    /\ pushed = <<>>
    /\ span_err = <<>>
    /\ field_names = <<>>
    /\ deny_unknown_fields = FALSE
    /\ is_variant = FALSE
    /\ value = StrKey(<<>>)
    /\ ident = NoIdent
    /\ pc = "expand"
    /\ variant_data = UnitShape
    /\ form = "gen"
    /\ input = <<>>
    /\ pos = 0
    /\ locals = <<>>
    /\ slots = <<>>
    /\ outcome = Running
    /\ calls = NoCalls
    /\ announce = NoAnnounce
    /\ enum_def = <<>>
    /\ arm_taken = ""
    /\ continuation = NoAnnounce
    /\ variant_ident = <<>>
    /\ wire = NoWire(0)
    /\ shadow = NoShadow
    /\ standalone = NoStandalone

decodeVars ==
    <<identVars, pc, variant_data, form, input, pos, locals, slots, outcome,
      calls, announce, enum_def, arm_taken, continuation, variant_ident, wire,
      shadow, standalone>>

\* the compiler expands the derive on the next annotated item
expand ==
    /\ pc = "expand"
    /\ Len(batch) < MaxBatch
    /\ \E annotatable \in Annotatables :
         LET r == expand_derive_deserialize(annotatable, Len(batch) + 1)
         IN /\ batch' = Append(batch, annotatable)
            /\ pushed' = pushed \o r.push
            /\ span_err' = span_err \o r.err
    /\ UNCHANGED decodeVars

NextGen == expand

SpecGen == InitGen /\ [][NextGen]_vars

----------------------------------------------------------------------------
\* Properties

n_fields == Len(variant_data.fields)

\* the first k items of the sequence can all be decoded
Decodable(k) == \A i \in 1..k : i <= Len(input) => input[i] # 0

value_reads == calls.visit_value + calls.with + calls.ignored

\* C1: in sequence form, when the cursor reports exhaustion on one of the
\* first n requests the call fails with end_of_stream: no default stands in
\* for an absent position, nothing is built and end() is not called.
C1_SeqTooFew ==
    (pc = "done" /\ form = "seq" /\ Len(input) < n_fields /\ Decodable(Len(input)))
    => /\ outcome = Fail("end_of_stream", "", <<>>)
       /\ outcome.value = <<>>
       /\ calls.visit = Len(input) + 1
       /\ calls.end = 0

C1_Witness ==
    /\ pc = "done" /\ form = "seq" /\ variant_data.kind = "Struct"
    /\ n_fields = 2 /\ Len(input) = 1 /\ input[1] # 0
    /\ variant_data.fields[2].missing = "Default"
    /\ outcome.kind = "end_of_stream"

\* C2: in sequence form, with n decodable values present, exactly n values
\* are requested and end() is called once; more than n values fail with the
\* error of end(), exactly n build the result with the i-th value read in
\* the i-th declared field.
C2_SeqExact ==
    (pc = "done" /\ form = "seq" /\ Len(input) >= n_fields /\ Decodable(n_fields))
    => /\ calls.visit = n_fields
       /\ calls.end = 1
       /\ Len(input) > n_fields => outcome = Fail("TrailingData", "", <<>>)
       /\ Len(input) = n_fields => outcome = Done([i \in 1..n_fields |-> input[i]])

C2_Witness ==
    /\ pc = "done" /\ form = "seq" /\ variant_data.kind = "Struct"
    /\ n_fields = 2 /\ Len(input) = 2 /\ input[1] = 2 /\ input[2] = 1
    /\ outcome.kind = "Ok"

\* C3: with unknown fields denied, a text or byte key of the map that equals
\* no wire name fails the call with unknown_field carrying that key, at the
\* moment the key is resolved: no value is read or skipped for it and no
\* result is produced, whatever was supplied before.
C3_DenyUnknown ==
    (form = "map" /\ deny_unknown_fields /\ wire.unknown > 0)
    => /\ pc = "done"
       /\ outcome.kind # "Ok"
       /\ value_reads = calls.visit_key - 1
       /\ calls.end = 0
       /\ wire.key.kind # "usize"
          => outcome = Fail("unknown_field", "", KeyText(wire.key))

C3_Witness ==
    /\ form = "map" /\ deny_unknown_fields /\ pc = "done"
    /\ n_fields = 2 /\ \A i \in 1..n_fields : wire.seen[i] = 1
    /\ wire.key = BytesKey(<<255>>)
    /\ outcome = Fail("unknown_field", "", <<65533>>)

DefaultOf(field) == IF field.missing = "Default" THEN 0 ELSE 9

MissingRequired ==
    {i \in 1..n_fields : slots[i] = <<>> /\ variant_data.fields[i].missing = "Error"}

Resolved ==
    [i \in 1..n_fields |->
        IF slots[i] # <<>> THEN slots[i][1] ELSE DefaultOf(variant_data.fields[i])]

\* C5: in map form, once the keys are exhausted, an empty slot of a field
\* with policy Error fails the call with missing_field naming it; an empty
\* slot of a field with a default takes the default and the call succeeds
\* when every field is resolved; a populated slot gives its decoded value.
C5_MissingPolicy ==
    (form = "map" /\ wire.exhausted /\ pc # "extract")
    => IF MissingRequired # {}
       THEN /\ pc = "done"
            /\ outcome.kind = "missing_field"
            /\ \E i \in MissingRequired : outcome.text = variant_data.fields[i].wire
       ELSE /\ pc = "map_end" => locals = Resolved
            /\ pc = "done" => outcome = (IF wire.end_failed
                                         THEN Fail("TrailingData", "", <<>>)
                                         ELSE Done(Resolved))

C5_Witness ==
    /\ form = "map" /\ pc = "done" /\ outcome.kind = "Ok"
    /\ n_fields = 2
    /\ variant_data.fields[1].missing = "Default" /\ slots[1] # <<>>
    /\ variant_data.fields[2].missing = "DefaultExpr" /\ slots[2] = <<>>
    /\ outcome.value[2] = 9

\* what a field's decoder makes of an item
DecodedAs(field, raw) == IF field.with THEN raw + 10 ELSE raw

\* C6: a recognized key that comes more than once does not fail the call, and
\* the field ends with the value decoded for the key's last occurrence.
C6_LastWins ==
    (form = "map" /\ pc = "done")
    => /\ outcome.kind = "Ok"
          => \A i \in 1..n_fields :
                wire.seen[i] >= 1
                => outcome.value[i] = DecodedAs(variant_data.fields[i], wire.last[i])
       /\ outcome.kind = "NestedError"
          => LET f == KeyField(variant_data.fields, wire.key)
             IN f # 0 /\ wire.last[f] = 0
       /\ outcome.kind = "missing_field"
          => \E i \in 1..n_fields :
                wire.seen[i] = 0 /\ outcome.text = variant_data.fields[i].wire
       /\ outcome.kind \in {"unknown_field", "invalid_value"}
          => KeyField(variant_data.fields, wire.key) = 0
       /\ outcome.kind = "TrailingData" => wire.end_failed
       /\ outcome.kind = "KeyError" => wire.key_failed
       /\ outcome.kind \in {"Ok", "NestedError", "missing_field", "unknown_field",
                            "invalid_value", "TrailingData", "KeyError"}

C6_Witness ==
    /\ form = "map" /\ pc = "done" /\ outcome.kind = "Ok"
    /\ n_fields = 2 /\ wire.seen[1] = 2 /\ wire.seen[2] = 1
    /\ wire.last[1] = 2

\* the tag generated for the declaration at (0-based) index k
TagOf(k) == "__field" \o ToString(k)

\* C7: for the declaration at index i with wire name w, the index i, the text
\* w and the bytes of w all resolve to the tag of index i, for fields and for
\* variants, whether or not unknown fields are denied.
C7_Agreement ==
    pc = "done" /\ form = "ident"
    => \A i \in 1..Len(field_names) :
          value \in {UsizeKey(i - 1), StrKey(field_names[i]),
                     BytesKey(byte_str(field_names[i]))}
          => ident = Ok(TagOf(i - 1))

C7_Witness ==
    /\ pc = "done" /\ form = "ident" /\ is_variant /\ deny_unknown_fields
    /\ Len(field_names) = 2 /\ field_names[1] = <<233>>
    /\ value = BytesKey(<<195, 169>>)
    /\ ident = Ok("__field0")

\* C8: an index at or beyond the number of names is an error, except for
\* fields with unknown fields allowed, where it resolves to __ignore; it
\* never resolves to the tag of a declaration.
C8_OutOfRange ==
    (pc = "done" /\ form = "ident" /\ value.kind = "usize"
        /\ value.n >= Len(field_names))
    => IF ~is_variant /\ ~deny_unknown_fields
       THEN ident = Ok("__ignore")
       ELSE ident.kind = "invalid_value" /\ ident.tag = ""

C8_Witness ==
    /\ pc = "done" /\ form = "ident" /\ value.kind = "usize"
    /\ value.n = Len(field_names) /\ is_variant /\ ~deny_unknown_fields
    /\ ident.kind = "invalid_value"

\* C9: a variant tag (index, text or bytes) that names no declared variant
\* fails the call, whether or not unknown fields are denied: unknown_variant
\* for a text or byte tag; it never resolves to __ignore, the dispatch never
\* takes the __ignore arm, and no value is produced for such a tag.
C9_UnknownVariant ==
    /\ arm_taken # "__ignore"
    /\ pc = "variant_arm"
       => (ident.kind = "Ok" /\ ident.tag # "__ignore"
           /\ KeyField(enum_def, value) # 0)
    /\ (pc \notin {"start", "visit_variant"} /\ KeyField(enum_def, value) = 0)
       => /\ pc = "done"
          /\ arm_taken = ""
          /\ ident.kind # "Ok" /\ ident.tag = ""
          /\ outcome.kind # "Ok"
          /\ outcome = (IF value.kind = "usize"
                        THEN Fail("invalid_value", "expected a variant", <<>>)
                        ELSE Fail("unknown_variant", "", KeyText(value)))

C9_Witness ==
    /\ pc = "done" /\ ~deny_unknown_fields /\ Len(enum_def) = 2
    /\ value = StrKey(NamePool(3))
    /\ outcome = Fail("unknown_variant", "", NamePool(3))
    /\ calls.visit_variant = 1

\* the serializing side of a field: serialize_with undoes deserialize_with
serialize_with(v) == v - 10

Encode(field, v) == IF field.with THEN serialize_with(v) ELSE v

\* the values of a struct of these fields
StructValues(fields) ==
    {v \in [1..Len(fields) -> {1, 2, 11, 12}] :
        \A i \in 1..Len(fields) :
            v[i] \in (IF fields[i].with THEN {11, 12} ELSE {1, 2})}

SeqEncoding(fields, v) == [i \in 1..Len(fields) |-> Encode(fields[i], v[i])]

\* the map the cursor produced pairs every field's key, once, with the
\* encoding of the field's value, and nothing else
IsMapEncoding(fields, v) ==
    /\ wire.unknown = 0
    /\ wire.exhausted
    /\ ~wire.end_failed
    /\ \A i \in 1..Len(fields) :
          wire.seen[i] = 1 /\ wire.last[i] = Encode(fields[i], v[i])

\* C10 (sequence path): decoding the sequence encoding of a struct value
\* (the fields' encodings in declaration order) yields that value.
C10_SeqRoundTrip ==
    (pc = "done" /\ form = "seq" /\ variant_data.kind = "Struct")
    => \A v \in StructValues(variant_data.fields) :
          input = SeqEncoding(variant_data.fields, v) => outcome = Done(v)

\* C10 (map path): decoding a map encoding of a struct value (every wire
\* name paired with the field's encoding, in any order) yields that value.
C10_MapRoundTrip ==
    (pc = "done" /\ form = "map" /\ variant_data.kind = "Struct")
    => \A v \in StructValues(variant_data.fields) :
          IsMapEncoding(variant_data.fields, v) => outcome = Done(v)

\* C10: for every value of a named-field struct, decoding its sequence
\* encoding and decoding its map encoding both succeed and yield the value.
C10_RoundTrip == C10_SeqRoundTrip /\ C10_MapRoundTrip

----------------------------------------------------------------------------
\* All-or-nothing outcome

\* what the operation the decoder is about to make, or has just made, reports
\* when it reports an error ("" when it reports none): the cursor's visit(),
\* end(), visit_key() and visit_value(), the resolution of a key or variant
\* tag, the nested decode and the resolution of an empty slot
ErrorOfStep ==
    LET fields == variant_data.fields
        f == KeyField(fields, wire.key)
    IN CASE pc \in {"visit_newtype_struct", "variant_newtype"} ->
              IF input[1] = 0 THEN Fail("NestedError", "", <<>>) ELSE Running
         [] pc = "visit_variant" ->
              LET r == Field_deserialize(variant_names(enum_def), TRUE,
                                         deny_unknown_fields, value)
              IN IF r.kind = "Ok" THEN Running ELSE Propagate(r)
         [] pc = "variant_arm" ->
              IF FirstArm(field_idents(variant_names(enum_def)), ident.tag) = 0
              THEN Fail("end_of_stream", "", <<>>) ELSE Running
         [] pc = "visit_seq" /\ Len(locals) < n_fields ->
              LET got == SeqVisitor_visit(input, pos)
              IN IF got.kind = "Some" THEN Running
                 ELSE IF got.kind = "None" THEN Fail("end_of_stream", "", <<>>)
                 ELSE Fail(got.kind, "", <<>>)
         [] pc = "visit_seq" /\ Len(locals) = n_fields ->
              IF pos < Len(input) THEN Fail("TrailingData", "", <<>>) ELSE Running
         [] pc = "map_key" ->
              IF wire'.key_failed THEN Fail("KeyError", "", <<>>)
              ELSE IF wire'.exhausted THEN Running
              ELSE LET r == Field_deserialize(field_exprs(fields), FALSE,
                                              deny_unknown_fields, wire'.key)
                   IN IF r.kind = "Ok" THEN Running ELSE Propagate(r)
         [] pc = "map_value" ->
              IF f # 0 /\ wire'.last[f] = 0 THEN Fail("NestedError", "", <<>>)
              ELSE Running
         [] pc = "extract" ->
              IF MissingRequired = {} THEN Running
              ELSE LET i == CHOOSE k \in MissingRequired :
                                \A j \in MissingRequired : k <= j
                   IN Fail("missing_field", "", fields[i].wire)
         [] pc = "map_end" ->
              IF wire'.end_failed THEN Fail("TrailingData", "", <<>>) ELSE Running
         [] OTHER -> Running

\* a step in which an operation reports an error ends the call with exactly
\* that error and no value; a step without one does not fail the call; an
\* ended call makes no further operation and keeps its outcome
FirstErrorEnds ==
    /\ ErrorOfStep # Running => (pc' = "done" /\ outcome' = ErrorOfStep)
    /\ ErrorOfStep = Running => outcome'.kind \in {"running", "Ok"}
    /\ outcome # Running => (outcome' = outcome /\ calls' = calls /\ pc' = pc)

\* the call's outcome is a value with every field filled or one error with
\* no value, and it is there exactly when the call has ended
OneOutcome ==
    /\ pc = "done" <=> outcome # Running
    /\ outcome.kind = "Ok"
       => (Len(outcome.value) = n_fields /\ outcome.msg = "" /\ outcome.text = <<>>)
    /\ outcome.kind # "Ok" => outcome.value = <<>>

----------------------------------------------------------------------------
\* No cursor use after end

\* the operations made on the sequence or map cursor so far
cursor_ops ==
    <<calls.visit, calls.visit_key, calls.visit_value, calls.with, calls.ignored,
      calls.end>>

\* once end() was called, no step asks the cursor for anything again
EndIsLast == calls.end >= 1 => cursor_ops' = cursor_ops

\* C12: in every entry point handed a cursor (the sequence form of a unit,
\* newtype, tuple or named-field struct, the map form of a named-field
\* struct) end() is called at most once, the call is over with it, and no
\* visit, visit_key or visit_value follows it.
C12_EndOnce ==
    /\ [](calls.end <= 1 /\ (calls.end = 1 => pc = "done"))
    /\ [](pc = "done" /\ outcome.kind = "Ok" /\ form \in {"seq", "map"}
            => calls.end = 1)
    /\ [][EndIsLast]_vars

\* end() was called after keys and values were read, and it failed
C12_Witness ==
    /\ pc = "done" /\ form = "map" /\ calls.end = 1
    /\ calls.visit_key = 3 /\ value_reads = 2
    /\ outcome.kind = "TrailingData"

----------------------------------------------------------------------------
\* Classification and dispatch

\* C13: a unit struct announces itself by deserialize_unit_struct, a
\* positional struct of exactly one field by deserialize_newtype_struct, a
\* positional struct of any other field count n (0 included) by
\* deserialize_tuple_struct with length n, a named-field struct by
\* deserialize_struct with one name per field; no shape announces as another.
C13_Classification ==
    (pc # "start" /\ enum_def = <<>> /\ form # "ident")
    => /\ variant_data.kind = "Unit"
          <=> announce.method = "deserialize_unit_struct"
       /\ (variant_data.kind = "Tuple" /\ n_fields = 1)
          <=> announce.method = "deserialize_newtype_struct"
       /\ (variant_data.kind = "Tuple" /\ n_fields # 1)
          <=> (announce.method = "deserialize_tuple_struct"
               /\ announce.len = n_fields)
       /\ variant_data.kind = "Struct"
          <=> (announce.method = "deserialize_struct"
               /\ Len(announce.names) = n_fields)

\* a positional struct without fields announced as a tuple of length 0
C13_Witness ==
    /\ pc = "done" /\ variant_data.kind = "Tuple" /\ n_fields = 0
    /\ announce.method = "deserialize_tuple_struct" /\ announce.len = 0
    /\ outcome.kind = "Ok"

\* the variant a tag names: by position, by wire name or by its bytes
TagVariant == KeyField(enum_def, value)

\* the VariantVisitor method that fits a variant's shape
ContinuationFits(k, data) ==
    LET n == Len(data.fields)
    IN CASE data.kind = "Unit" -> k.method = "visit_unit"
         [] data.kind = "Tuple" /\ n = 1 -> k.method = "visit_newtype"
         [] data.kind = "Tuple" /\ n # 1 -> k.method = "visit_tuple" /\ k.len = n
         [] data.kind = "Struct" ->
              /\ k.method = "visit_struct"
              /\ Len(k.names) = n
              /\ \A j \in 1..n : k.names[j] \in {data.fields[j].name,
                                                 data.fields[j].wire}

\* C14: a tag that resolves to the variant at index i takes the arm of
\* __field{i}, which calls exactly the VariantVisitor method of that
\* variant's shape (visit_unit, visit_newtype, visit_tuple with its arity,
\* visit_struct with its fields' names) once, and a successful call builds
\* that variant from that variant's fields.
C14_EnumDispatch ==
    (enum_def # <<>> /\ pc \notin {"start", "visit_variant", "variant_arm"}
        /\ TagVariant # 0)
    => LET v == enum_def[TagVariant]
       IN /\ arm_taken = TagOf(TagVariant - 1)
          /\ ContinuationFits(continuation, v.data)
          /\ calls.visit_unit + calls.visit_newtype + calls.visit_tuple
                + calls.visit_struct = 1
          /\ calls[continuation.method] = 1
          /\ variant_data = v.data
          /\ variant_ident = v.name
          /\ (pc = "done" /\ outcome.kind = "Ok")
             => Len(outcome.value) = Len(v.data.fields)

\* the second variant, a tuple variant of two fields, is chosen by its bytes
C14_Witness ==
    /\ pc = "done" /\ outcome.kind = "Ok" /\ Len(enum_def) = 2
    /\ value.kind = "bytes" /\ TagVariant = 2
    /\ continuation.method = "visit_tuple" /\ continuation.len = 2
    /\ variant_ident = enum_def[2].name
    /\ Len(outcome.value) = 2

\* C15: a decode call announces its type to the Deserializer exactly once, by
\* one of deserialize_unit_struct, _newtype_struct, _tuple_struct, _struct or
\* _enum; an enum announces deserialize_enum, and the payload of its variant
\* is asked of the VariantVisitor without any further announcement.
C15_OneAnnouncement ==
    /\ pc = "start" => (calls.announce = 0 /\ announce = NoAnnounce)
    /\ (pc # "start" /\ form # "ident")
       => /\ calls.announce = 1
          /\ announce.method \in DeserializerMethods
          /\ is_variant <=> announce.method = "deserialize_enum"
    /\ continuation # NoAnnounce
       => (is_variant /\ continuation.method \notin DeserializerMethods)

\* a struct variant decoded from a map to the end, after one announcement
C15_Witness ==
    /\ pc = "done" /\ outcome.kind = "Ok" /\ form = "map"
    /\ announce.method = "deserialize_enum" /\ calls.announce = 1
    /\ continuation.method = "visit_struct" /\ calls.visit_struct = 1
    /\ variant_data.kind = "Struct"

\* C16: the names a named-field struct passes to deserialize_struct are its
\* fields' wire names in declaration order: the i-th name announced is the
\* text key the field resolver maps to the tag of field i.
C16_AnnouncedWireNames ==
    (pc # "start" /\ variant_data.kind = "Struct"
        /\ announce.method = "deserialize_struct")
    => /\ Len(announce.names) = n_fields
       /\ \A i \in 1..n_fields :
             /\ announce.names[i] = variant_data.fields[i].wire
             /\ str_body(field_names, FALSE, deny_unknown_fields, announce.names[i])
                   = Ok(TagOf(i - 1))

----------------------------------------------------------------------------
\* Entry points per shape

\* C17: the visitor of a unit struct has the entry points visit_unit and
\* visit_seq only; visit_unit succeeds with the unit value without touching
\* a cursor; visit_seq asks for no element, calls end() once and succeeds
\* with the unit value exactly when end() succeeds, so a sequence that holds
\* an element fails with the error of end().
C17_UnitEntryPoints ==
    (variant_data.kind = "Unit" /\ enum_def = <<>> /\ form # "ident")
    => /\ form \in {"unit", "seq"}
       /\ calls.visit = 0 /\ calls.nested = 0
       /\ (pc = "done" /\ form = "unit")
          => (outcome = Done(<<>>) /\ calls.end = 0)
       /\ (pc = "done" /\ form = "seq")
          => /\ calls.end = 1
             /\ outcome = (IF Len(input) = 0 THEN Done(<<>>)
                           ELSE Fail("TrailingData", "", <<>>))

\* a unit struct met as a sequence of two elements
C17_Witness ==
    /\ variant_data.kind = "Unit" /\ pc = "done" /\ form = "seq"
    /\ Len(input) = 2 /\ calls.end = 1
    /\ outcome = Fail("TrailingData", "", <<>>)

\* C18: the visitor of a one-field positional struct has the entry points
\* visit_newtype_struct and visit_seq; visit_newtype_struct makes exactly one
\* nested decode and wraps its value, or returns its error as it is;
\* visit_seq is the sequence form with n = 1: one visit(), then end(), then
\* the wrapped value.
C18_NewtypeEntryPoints ==
    (variant_data.kind = "Tuple" /\ n_fields = 1 /\ enum_def = <<>>)
    => /\ form \in {"newtype", "seq"}
       /\ (pc = "done" /\ form = "newtype")
          => /\ calls.nested = 1
             /\ calls.visit = 0 /\ calls.end = 0
             /\ outcome = (IF input[1] = 0 THEN Fail("NestedError", "", <<>>)
                           ELSE Done(<<input[1]>>))
       /\ (pc = "done" /\ form = "seq")
          => /\ calls.nested = 0
             /\ calls.visit = 1
             /\ calls.end = (IF Len(input) >= 1 /\ input[1] # 0 THEN 1 ELSE 0)
             /\ outcome =
                  (CASE Len(input) = 0 -> Fail("end_of_stream", "", <<>>)
                     [] Len(input) >= 1 /\ input[1] = 0 ->
                          Fail("NestedError", "", <<>>)
                     [] Len(input) = 1 /\ input[1] # 0 -> Done(<<input[1]>>)
                     [] OTHER -> Fail("TrailingData", "", <<>>))

\* the nested decode of a newtype struct fails and its error is the outcome
C18_Witness ==
    /\ variant_data.kind = "Tuple" /\ n_fields = 1 /\ enum_def = <<>>
    /\ pc = "done" /\ form = "newtype" /\ input = <<0>>
    /\ calls.nested = 1
    /\ outcome = Fail("NestedError", "", <<>>)

----------------------------------------------------------------------------
\* Generation

ImplsFor(k) == {j \in 1..Len(pushed) : pushed[j].for = k}

ErrsFor(k) == {j \in 1..Len(span_err) : span_err[j].for = k}

IsStructOrEnum(a) == a.is_item /\ a.node \in {"Struct", "Enum"}

\* the malformed attribute of the item is one the generator reads: the
\* container's always, a variant's for an enum, a field's for a named-field
\* struct or an enum with a named-field variant
BodyFails(a) ==
    \/ a.bad = "container"
    \/ a.bad = "variant" /\ a.node = "Enum"
    \/ a.bad = "field" /\ a.node = "Struct" /\ a.data.kind = "Struct"
    \/ a.bad = "field" /\ a.node = "Enum"
          /\ \E j \in 1..Len(a.variants) : a.variants[j].kind = "Struct"

\* what the k-th expansion left behind depends on the k-th item alone
ExpansionOf(k) ==
    LET a == batch[k]
    IN /\ Cardinality(ImplsFor(k)) <= 1
       /\ (~IsStructOrEnum(a) \/ BodyFails(a))
          => (ImplsFor(k) = {} /\ ErrsFor(k) # {})
       /\ (IsStructOrEnum(a) /\ ~BodyFails(a))
          => (Cardinality(ImplsFor(k)) = 1 /\ ErrsFor(k) = {})

\* an expansion leaves what earlier expansions pushed and reported as it is
EarlierKept ==
    /\ Len(pushed') >= Len(pushed) /\ SubSeq(pushed', 1, Len(pushed)) = pushed
    /\ Len(span_err') >= Len(span_err)
    /\ SubSeq(span_err', 1, Len(span_err)) = span_err

\* C19: an expansion on something that is no struct and no enum, or whose
\* body cannot be built, reports a diagnostic and pushes no impl; an
\* expansion that succeeds pushes exactly one impl and reports nothing; what
\* happens to one item changes nothing for the items before or after it.
C19_GenerationFailure ==
    /\ [](\A k \in 1..Len(batch) : ExpansionOf(k))
    /\ [][EarlierKept]_vars

\* a struct with a malformed container attribute, then an enum that generates
C19_Witness ==
    /\ Len(batch) = 2
    /\ batch[1].node = "Struct" /\ batch[1].bad = "container"
    /\ batch[2].node = "Enum" /\ batch[2].bad = "" /\ Len(batch[2].variants) = 2
    /\ Len(pushed) = 1 /\ pushed[1].for = 2
    /\ Len(span_err) = 1 /\ span_err[1].for = 1

\* the type parameters of the subject of a pushed impl
SubjectTyParams(p) == batch[p.for].generics.ty_params

\* the subject's parameters, each with the Deserialize bound added
WithDeserialize(params) ==
    [i \in 1..Len(params) |->
        [ident |-> params[i].ident,
         bounds |-> Append(params[i].bounds, "::serde::de::Deserialize")]]

IsUnitStruct(a) == a.node = "Struct" /\ a.data.kind = "Unit"

\* C20 as stated: the type parameters of every synthesized visitor are the
\* subject's type parameters in the same order, none added, dropped or
\* reordered, each with the subject's bounds plus the Deserialize bound.
C20_VisitorGenerics ==
    \A j \in 1..Len(pushed) :
        \A v \in 1..Len(pushed[j].visitors) :
            pushed[j].visitors[v].generics.ty_params
               = WithDeserialize(SubjectTyParams(pushed[j]))

\* C20, amended: the type parameters of every synthesized visitor are the
\* forwarded decoder parameter __D, bounded by Deserializer, followed by the
\* subject's type parameters in the same order, none dropped or reordered,
\* each with the subject's bounds plus the Deserialize bound; the visitor of
\* a unit struct has no type parameter.
C20_VisitorGenericsForwarded ==
    \A j \in 1..Len(pushed) :
        /\ pushed[j].generics.ty_params = WithDeserialize(SubjectTyParams(pushed[j]))
        /\ \A v \in 1..Len(pushed[j].visitors) :
              pushed[j].visitors[v].generics.ty_params
                 = (IF IsUnitStruct(batch[pushed[j].for]) THEN <<>>
                    ELSE <<deserializer_ty_param>>
                         \o WithDeserialize(SubjectTyParams(pushed[j])))

\* a named-field struct of two type parameters, the first one bounded
C20_Witness ==
    /\ Len(pushed) >= 1
    /\ batch[pushed[1].for].node = "Struct"
    /\ batch[pushed[1].for].data.kind = "Struct"
    /\ Len(SubjectTyParams(pushed[1])) = 2
    /\ SubjectTyParams(pushed[1])[1].bounds = <<"Clone">>
    /\ Len(pushed[1].visitors[1].generics.ty_params) = 3

----------------------------------------------------------------------------
\* The map form's loop and final steps

\* the counters of the three value operations, and the one a key calls for
value_ops == <<calls.visit_value, calls.with, calls.ignored>>

ValueOpFor(fields, key) ==
    LET f == KeyField(fields, key)
    IN IF f = 0 THEN "ignored"
       ELSE IF fields[f].with THEN "with" ELSE "visit_value"

\* between two steps: visit_key is called at the loop's head only, a value
\* operation is made in the loop's body only, and it is the one operation
\* the key just returned calls for
KeyThenValue ==
    /\ calls'.visit_key = calls.visit_key + (IF pc = "map_key" THEN 1 ELSE 0)
    /\ pc # "map_value" => value_ops' = value_ops
    /\ pc = "map_value"
       => calls' = Called(calls, ValueOpFor(variant_data.fields, wire.key))
    /\ wire.exhausted => (calls'.visit_key = calls.visit_key /\ value_ops' = value_ops)

\* every key returned has had its value operation, but the one just returned
Alternates ==
    form = "map"
    => /\ pc = "map_key" => value_reads = calls.visit_key
       /\ pc \in {"map_value", "extract", "map_end"}
          => value_reads = calls.visit_key - 1
       /\ pc = "done" => value_reads \in {calls.visit_key - 1, calls.visit_key}
       /\ pc = "map_value" => ident.kind = "Ok"
       /\ wire.exhausted <=> pc \in {"extract", "map_end"}
                             \/ (pc = "done" /\ outcome.kind \in
                                   {"Ok", "missing_field", "TrailingData"})

\* C21: in the map form every visit_key that returns a key is followed,
\* before the next visit_key, by exactly one value operation: the field's
\* deserialize_with expression if it has one, visit_value for another
\* recognized field, one discarded IgnoredAny value for an ignored key; no
\* value operation comes without a key before it, and the first visit_key
\* that returns None is the last.
C21_KeyValueAlternation == []Alternates /\ [][KeyThenValue]_vars

\* three keys: a plain field, a field with a custom decoder, an unknown key
C21_Witness ==
    /\ form = "map" /\ pc = "done" /\ outcome.kind = "Ok"
    /\ calls.visit_key = 4
    /\ calls.visit_value = 1 /\ calls.with = 1 /\ calls.ignored = 1
    /\ calls.end = 1

\* the first required field, in declaration order, whose slot is empty
FirstMissing == CHOOSE k \in MissingRequired : \A j \in MissingRequired : k <= j

\* C22: in the map form the slots are resolved only after visit_key returned
\* None, in declaration order, and before end() is called: when several
\* required fields are absent the missing_field error names the first of
\* them, and it is returned without end() being called, whatever end()
\* would have reported.
C22_FinalStepsOrder ==
    form = "map"
    => /\ ~wire.exhausted => (locals = <<>> /\ calls.end = 0
                              /\ outcome.kind # "missing_field")
       /\ pc = "extract" => (locals = <<>> /\ calls.end = 0)
       /\ (wire.exhausted /\ pc # "extract" /\ MissingRequired # {})
          => /\ pc = "done"
             /\ outcome = Fail("missing_field", "",
                               variant_data.fields[FirstMissing].wire)
             /\ calls.end = 0
       /\ calls.end = 1 => (wire.exhausted /\ MissingRequired = {}
                            /\ locals = Resolved)

\* both fields are required and both are absent: the first one is named
C22_Witness ==
    /\ form = "map" /\ pc = "done" /\ n_fields = 2
    /\ MissingRequired = {1, 2}
    /\ wire.unknown = 1
    /\ outcome = Fail("missing_field", "", variant_data.fields[1].wire)
    /\ calls.end = 0

\* where visit_map's body stands
in_visit_map == form = "map" /\ pc \in {"map_key", "map_value", "extract", "map_end"}

\* between two steps of visit_map: the value read for a key of field f may
\* change slot f only, the value dropped for an ignored key changes no slot,
\* no other step changes a slot, and no slot that holds a value loses it
SlotsFrame ==
    in_visit_map
    => LET f == KeyField(variant_data.fields, wire.key)
       IN /\ Len(slots') = Len(slots)
          /\ pc = "map_value"
             => \A j \in 1..Len(slots) : j # f => slots'[j] = slots[j]
          /\ pc # "map_value" => slots' = slots
          /\ \A j \in 1..Len(slots) : slots[j] # <<>> => slots'[j] # <<>>

\* one slot per field, all empty when the first key is asked for
SlotsStart ==
    form = "map"
    => /\ pc \notin {"start", "visit_variant", "variant_arm"}
          => Len(slots) = n_fields
       /\ (pc = "map_key" /\ calls.visit_key = 0)
          => \A j \in 1..n_fields : slots[j] = <<>>
       /\ \A j \in 1..Len(slots) :
             /\ Len(slots[j]) <= 1
             /\ slots[j] # <<>> <=> wire.seen[j] >= 1
                                     /\ ~(pc = "map_value" /\ wire.seen[j] = 1
                                          /\ KeyField(variant_data.fields, wire.key) = j)
                                     /\ ~(pc = "done" /\ wire.seen[j] = 1
                                          /\ outcome.kind = "NestedError"
                                          /\ KeyField(variant_data.fields, wire.key) = j)

\* C23: every slot is empty when a map decode starts; the value of a key that
\* resolves to field i changes slot i and no other slot; an ignored key
\* changes no slot; a slot that holds a value is not emptied again before
\* the extraction.
C23_SlotsFrame == []SlotsStart /\ [][SlotsFrame]_vars

\* the first field's slot is filled, an unknown key came, the second is empty
C23_Witness ==
    /\ form = "map" /\ pc = "map_key" /\ n_fields = 2
    /\ wire.seen[1] = 1 /\ wire.seen[2] = 0 /\ wire.unknown = 1
    /\ slots[1] # <<>> /\ slots[2] = <<>>

----------------------------------------------------------------------------
\* the payload of a named-field struct or struct variant is being decoded, or
\* has been
in_struct_payload ==
    /\ variant_data.kind = "Struct"
    /\ form \in {"seq", "map"}
    /\ pc \in {"visit_seq", "map_key", "map_value", "extract", "map_end", "done"}
    /\ standalone.pc # ""

\* C24: a struct-shaped enum variant decodes as a standalone named-field
\* struct of the same fields and container policy does: fed the same input
\* through the sequence or the map entry point, both stand at the same step
\* with the same slots and field values and end with the same outcome (the
\* same values or the same error); the variant's field keys are resolved with
\* field semantics (the ignore tag when deny_unknown_fields is false,
\* unknown_field otherwise), never with variant semantics.
C24_VariantAsStruct ==
    in_struct_payload
    => /\ standalone.pc = pc
       /\ standalone.slots = slots
       /\ standalone.locals = locals
       /\ standalone.outcome = outcome
       /\ outcome.kind # "unknown_variant"
       /\ pc = "map_value"
          => /\ standalone.ident = ident
             /\ ident = Field_deserialize(field_exprs(variant_data.fields), FALSE,
                                          deny_unknown_fields, wire.key)
             /\ ident.tag = "__ignore" => ~deny_unknown_fields

\* a struct variant that met an unknown key ends as the struct would: with
\* unknown_field when unknown fields are denied
C24_Witness ==
    /\ is_enum /\ in_struct_payload /\ form = "map"
    /\ pc = "done" /\ wire.unknown = 1 /\ deny_unknown_fields
    /\ outcome.kind = "unknown_field"
    /\ standalone.outcome = outcome

----------------------------------------------------------------------------
\* the tags the claim expects of an identifier type over n declarations
ExpectedTags(n, deny) ==
    [i \in 1..(n + (IF deny THEN 0 ELSE 1)) |->
        IF i <= n THEN TagOf(i - 1) ELSE "__ignore"]

\* C25: the generated identifier type has exactly one tag per declared field
\* or variant, in declaration order, followed by the ignore tag exactly when
\* deny_unknown_fields is false, for field and for variant identifier types
\* alike; every tag a resolution yields is one of them.
C25_TagSetShape ==
    form = "ident"
    => LET tags == field_enum(field_names, deny_unknown_fields)
       IN /\ tags = ExpectedTags(Len(field_names), deny_unknown_fields)
          /\ \A i, j \in 1..Len(tags) : tags[i] = tags[j] => i = j
          /\ ident.kind = "Ok" => \E i \in 1..Len(tags) : tags[i] = ident.tag

\* a variant identifier type of two variants carries the ignore tag as its
\* third tag, though the resolver has just refused an unknown name
C25_Witness ==
    /\ form = "ident" /\ pc = "done"
    /\ is_variant /\ ~deny_unknown_fields
    /\ Len(field_names) = 2
    /\ field_enum(field_names, deny_unknown_fields)
         = <<"__field0", "__field1", "__ignore">>
    /\ ident.kind = "unknown_variant"

----------------------------------------------------------------------------
\* C26: a named-field struct or struct variant decoded through visit_seq has
\* every field read with the generic visit(), a field with a custom decode
\* expression included: the custom decoder is not called and the field holds
\* the item as the generic decode gives it; the custom decoder is called only
\* in visit_map, for a key of a field that declares one, and then the field
\* holds what the custom decoder made of the item.
C26_SeqIgnoresFieldConfig ==
    variant_data.kind = "Struct"
    => /\ form = "seq"
          => /\ calls.with = 0
             /\ calls.visit_value = 0
             /\ Len(locals) <= calls.visit
             /\ \A i \in 1..Len(locals) : locals[i] = input[i]
             /\ (pc = "done" /\ outcome.kind = "Ok") => outcome.value = input
       /\ calls.with > 0
          => /\ form = "map"
             /\ \E i \in 1..n_fields :
                   variant_data.fields[i].with /\ wire.seen[i] > 0
       /\ (form = "map" /\ pc = "done" /\ outcome.kind = "Ok")
          => \A i \in 1..n_fields :
                wire.seen[i] > 0
                => outcome.value[i] = IF variant_data.fields[i].with
                                      THEN wire.last[i] + 10 ELSE wire.last[i]

\* the sequence form has built a struct whose first field declares a custom
\* decoder, and the field holds the item itself, not what the custom decoder
\* makes of it
C26_Witness ==
    /\ form = "seq" /\ variant_data.kind = "Struct"
    /\ pc = "done" /\ outcome.kind = "Ok"
    /\ n_fields = 2 /\ variant_data.fields[1].with
    /\ outcome.value[1] = input[1]
    /\ deserialize_with(input[1]) = Some(input[1] + 10)
    /\ calls.with = 0 /\ calls.visit = 2

----------------------------------------------------------------------------
\* C27: every name of the list an enum passes to deserialize_enum is accepted
\* by the variant visitor's text resolver, and the name at position i resolves
\* to the tag of variant i, also when variants are renamed.
C27_AnnouncedVariantsResolvable ==
    (pc # "start" /\ enum_def # <<>> /\ announce.method = "deserialize_enum")
    => /\ Len(announce.names) = Len(enum_def)
       /\ \A i \in 1..Len(enum_def) :
             str_body(variant_names(enum_def), TRUE, deny_unknown_fields,
                      announce.names[i]) = Ok(TagOf(i - 1))

====
